---- MODULE Spec2Model ----
(***************************************************************************)
(* Campaign generation backend (app/main.py and app/services): the request *)
(* handlers, the free search + AI system with its provider fallbacks, the  *)
(* previous generator, and the keyword analyzers.                          *)
(*                                                                         *)
(* Text is modelled as a sequence of one-character strings, so that the    *)
(* substring tests, lower() and split() of the code are computed and not   *)
(* assumed.  Accented letters are written as two-character strings:        *)
(* "a'" "a~" "e'" "e^" "i'" "o'" "c," (a acute, a tilde, ..., c cedilla).  *)
(***************************************************************************)
EXTENDS Integers, Sequences, FiniteSets, TLC

VARIABLES
    creds,        \* credentials read from the environment by the singletons
    main_system,  \* "free" | "real" | "none": result of the imports in main.py
    pc,           \* position of the request handler
    req,          \* the request being served
    analysis,     \* result of the Analyze stage
    copies,       \* result of the Copy stage
    refs,         \* reference photos found by the search
    prompts,      \* image prompts
    images,       \* result of the Image stage
    resp,         \* the HTTP response
    trace,        \* ghost: stages and provider calls of the current request;
                  \* attempts[i] lists the tiers invoked for image i in order
                  \* ("stability", "huggingface", "mock") and whether each
                  \* made the image
    hq,           \* analyzer harness: prompt under analysis and the results
    lg,           \* the generators that main.py does not load: AIGenerator behind
                  \* the router of api/routes/ai.py, ImageGeneratorClean and
                  \* FreeImageGenerator
    cc            \* two requests on one event loop: which one is running, the
                  \* locals of the suspended one, and what the providers
                  \* answer to each

vars == <<creds, main_system, pc, req, analysis, copies, refs, prompts, images, resp, trace, hq, lg, cc>>

----------------------------------------------------------------------------
(* Text helpers: str.lower, the `in` substring test, str.split              *)

LowerOf ==
    [A |-> "a", B |-> "b", C |-> "c", D |-> "d", E |-> "e", F |-> "f", G |-> "g",
     H |-> "h", I |-> "i", J |-> "j", K |-> "k", L |-> "l", M |-> "m", N |-> "n",
     O |-> "o", P |-> "p", Q |-> "q", R |-> "r", S |-> "s", T |-> "t", U |-> "u",
     V |-> "v", W |-> "w", X |-> "x", Y |-> "y", Z |-> "z"]

lower(s) == [i \in 1..Len(s) |-> IF s[i] \in DOMAIN LowerOf THEN LowerOf[s[i]] ELSE s[i]]

\* kw in s
Contains(s, kw) ==
    \E i \in 1..(Len(s) - Len(kw) + 1) : SubSeq(s, i, i + Len(kw) - 1) = kw

\* any(k in s for k in kws)
any_in(kws, s) == \E j \in 1..Len(kws) : Contains(s, kws[j])

Whitespace == {" "}

\* s.split(): the maximal runs of non-whitespace characters, in order
RECURSIVE split(_)
split(s) ==
    IF s = <<>> THEN <<>>
    ELSE IF s[1] \in Whitespace THEN split(Tail(s))
    ELSE LET n == IF \E i \in 1..Len(s) : s[i] \in Whitespace
                   THEN (CHOOSE i \in 1..Len(s) :
                            /\ s[i] \in Whitespace
                            /\ \A j \in 1..(i-1) : s[j] \notin Whitespace) - 1
                   ELSE Len(s)
         IN  <<SubSeq(s, 1, n)>> \o split(SubSeq(s, n + 1, Len(s)))

\* a JSON null where text was asked for (json.loads gives None)
JsonNull == <<"null", "null">>
IsText(v) == v # JsonNull

----------------------------------------------------------------------------
(* Keyword tables of the analyzers                                          *)

\* FreeSearchAISystem._mock_analysis_free
pets ==
    << <<"p","e","i","x","e"," ","p","a","l","h","a","c,","o">>, <<"p","e","i","x","e">>,
       <<"g","o","l","d","f","i","s","h">>, <<"b","e","t","t","a">>, <<"g","u","p","p","y">>,
       <<"n","e","o","n"," ","t","e","t","r","a">>, <<"c","a","c","h","o","r","r","o">>,
       <<"c","a~","o">>, <<"g","o","l","d","e","n">>, <<"l","a","b","r","a","d","o","r">>,
       <<"p","o","o","d","l","e">>, <<"s","h","i","h"," ","t","z","u">>, <<"g","a","t","o">>,
       <<"p","e","r","s","a">>, <<"s","i","a","m","e^","s">>,
       <<"m","a","i","n","e"," ","c","o","o","n">>, <<"h","a","m","s","t","e","r">>,
       <<"c","h","i","n","c","h","i","l","a">>, <<"c","o","e","l","h","o">>,
       <<"f","e","r","r","e","t">>, <<"p","a","p","a","g","a","i","o">>,
       <<"c","a","n","a'","r","i","o">>, <<"c","a","l","o","p","s","i","t","a">>,
       <<"a","g","a","p","o","r","n","i","s">>, <<"t","a","r","t","a","r","u","g","a">>,
       <<"i","g","u","a","n","a">>, <<"g","e","c","k","o">> >>

plantas ==
    << <<"s","u","c","u","l","e","n","t","a">>, <<"c","a","c","t","o">>,
       <<"s","a","m","a","m","b","a","i","a">>, <<"v","i","o","l","e","t","a">>,
       <<"o","r","q","u","i'","d","e","a">>, <<"r","o","s","a">>,
       <<"g","i","r","a","s","s","o","l">>, <<"l","a","v","a","n","d","a">>,
       <<"m","a","n","j","e","r","i","c","a~","o">>, <<"a","l","e","c","r","i","m">>,
       <<"p","a","l","m","e","i","r","a">>, <<"f","i","c","u","s">>,
       <<"m","o","n","s","t","e","r","a">>,
       <<"c","o","s","t","e","l","a"," ","d","e"," ","a","d","a~","o">> >>

tech ==
    << <<"i","p","h","o","n","e">>, <<"s","m","a","r","t","p","h","o","n","e">>,
       <<"c","e","l","u","l","a","r">>, <<"t","a","b","l","e","t">>,
       <<"n","o","t","e","b","o","o","k">>, <<"l","a","p","t","o","p">>,
       <<"s","m","a","r","t","w","a","t","c","h">>, <<"f","o","n","e">>,
       <<"h","e","a","d","p","h","o","n","e">>, <<"m","o","u","s","e">>,
       <<"t","e","c","l","a","d","o">>, <<"m","o","n","i","t","o","r">>, <<"t","v">>,
       <<"s","m","a","r","t"," ","t","v">>, <<"c","h","r","o","m","e","c","a","s","t">> >>

servicos ==
    << <<"c","o","n","s","u","l","t","a">>, <<"a","u","l","a">>, <<"c","u","r","s","o">>,
       <<"t","r","e","i","n","a","m","e","n","t","o">>, <<"c","o","a","c","h","i","n","g">>,
       <<"m","a","n","u","t","e","n","c,","a~","o">>, <<"r","e","p","a","r","o">>,
       <<"i","n","s","t","a","l","a","c,","a~","o">>, <<"l","i","m","p","e","z","a">>,
       <<"d","e","s","i","g","n">>, <<"f","o","t","o","g","r","a","f","i","a">>,
       <<"m","a","r","k","e","t","i","n","g">> >>

kw_tech_pro ==
    << <<"p","r","o">>, <<"p","r","o","f","i","s","s","i","o","n","a","l">>,
       <<"t","r","a","b","a","l","h","o">> >>

\* AIGeneratorReal._mock_analysis_expanded
kw_smartphone ==
    << <<"i","p","h","o","n","e">>, <<"g","a","l","a","x","y">>, <<"x","i","a","o","m","i">>,
       <<"m","o","t","o","r","o","l","a">>, <<"s","m","a","r","t","p","h","o","n","e">>,
       <<"c","e","l","u","l","a","r">> >>

kw_notebook ==
    << <<"n","o","t","e","b","o","o","k">>, <<"l","a","p","t","o","p">>,
       <<"m","a","c","b","o","o","k">> >>

kw_tablet ==
    << <<"t","a","b","l","e","t">>, <<"i","p","a","d">> >>

kw_smart_tv ==
    << <<"t","v">>, <<"s","m","a","r","t"," ","t","v">>, <<"t","e","l","e","v","i","s","a~","o">> >>

kw_fone ==
    << <<"f","o","n","e">>, <<"h","e","a","d","p","h","o","n","e">>,
       <<"e","a","r","p","h","o","n","e">>, <<"a","i","r","p","o","d","s">> >>

kw_smartwatch ==
    << <<"s","m","a","r","t","w","a","t","c","h">>, <<"w","a","t","c","h">>,
       <<"r","e","l","o'","g","i","o">> >>

kw_caixa_som ==
    << <<"c","a","i","x","a"," ","d","e"," ","s","o","m">>, <<"s","p","e","a","k","e","r">>,
       <<"j","b","l">> >>

kw_apple ==
    << <<"i","p","h","o","n","e">>, <<"a","p","p","l","e">>, <<"m","a","c","b","o","o","k">>,
       <<"i","p","a","d">> >>

kw_samsung ==
    << <<"s","a","m","s","u","n","g">>, <<"g","a","l","a","x","y">> >>

kw_xiaomi ==
    << <<"x","i","a","o","m","i">>, <<"r","e","d","m","i">> >>

kw_motorola ==
    << <<"m","o","t","o","r","o","l","a">>, <<"m","o","t","o">> >>

kw_gamer ==
    << <<"g","a","m","e","r">>, <<"g","a","m","i","n","g">>, <<"g","a","m","e">> >>

kw_profissional ==
    << <<"p","r","o">>, <<"p","r","o","f","i","s","s","i","o","n","a","l">>,
       <<"t","r","a","b","a","l","h","o">> >>

----------------------------------------------------------------------------
(* The keyword analyzers.  preco_estimado is the pair <<low, high>> that    *)
(* the code formats into "R$ low - R$ high".                                *)

\* a context branch that tests the technology list before the pet list
mock_context_free_tech_first(prompt_lower) ==
    IF any_in(tech, prompt_lower) THEN
        [tipo_produto |-> "tecnologia",
         categoria_uso |-> IF any_in(kw_tech_pro, prompt_lower) THEN "profissional" ELSE "pessoal",
         estrategia |-> IF Contains(prompt_lower, <<"i","p","h","o","n","e">>)
                        THEN "premium" ELSE "custo_beneficio",
         publico |-> "usuarios de tecnologia",
         contexto |-> "produtividade e comunicacao digital", preco |-> <<500, 5000>>]
    ELSE IF any_in(pets, prompt_lower) THEN
        [tipo_produto |-> "pet_animal_estimacao", categoria_uso |-> "pet",
         estrategia |-> "premium", publico |-> "familias com pets",
         contexto |-> "cuidado de animal de estimacao", preco |-> <<50, 300>>]
    ELSE IF any_in(plantas, prompt_lower) THEN
        [tipo_produto |-> "planta_decoracao", categoria_uso |-> "decoracao",
         estrategia |-> "premium", publico |-> "entusiastas de jardinagem",
         contexto |-> "decoracao do ambiente", preco |-> <<15, 150>>]
    ELSE IF any_in(servicos, prompt_lower) THEN
        [tipo_produto |-> "servico", categoria_uso |-> "profissional",
         estrategia |-> "profissional", publico |-> "pessoas buscando solucoes profissionais",
         contexto |-> "solucao de problemas ou aprendizado", preco |-> <<100, 500>>]
    ELSE
        [tipo_produto |-> "produto", categoria_uso |-> "geral",
         estrategia |-> "comercial", publico |-> "consumidores brasileiros",
         contexto |-> "uso cotidiano", preco |-> <<50, 500>>]

\* FreeSearchAISystem._mock_analysis_free: the context branch (first match)
mock_context_free(prompt_lower) ==
    IF any_in(pets, prompt_lower) THEN
        [tipo_produto |-> "pet_animal_estimacao", categoria_uso |-> "pet",
         estrategia |-> "premium", publico |-> "familias com pets",
         contexto |-> "cuidado de animal de estimacao", preco |-> <<50, 300>>]
    ELSE IF any_in(plantas, prompt_lower) THEN
        [tipo_produto |-> "planta_decoracao", categoria_uso |-> "decoracao",
         estrategia |-> "premium", publico |-> "entusiastas de jardinagem",
         contexto |-> "decoracao do ambiente", preco |-> <<15, 150>>]
    ELSE IF any_in(tech, prompt_lower) THEN
        [tipo_produto |-> "tecnologia",
         categoria_uso |-> IF any_in(kw_tech_pro, prompt_lower) THEN "profissional" ELSE "pessoal",
         estrategia |-> IF Contains(prompt_lower, <<"i","p","h","o","n","e">>)
                        THEN "premium" ELSE "custo_beneficio",
         publico |-> "usuarios de tecnologia",
         contexto |-> "produtividade e comunicacao digital", preco |-> <<500, 5000>>]
    ELSE IF any_in(servicos, prompt_lower) THEN
        [tipo_produto |-> "servico", categoria_uso |-> "profissional",
         estrategia |-> "profissional", publico |-> "pessoas buscando solucoes profissionais",
         contexto |-> "solucao de problemas ou aprendizado", preco |-> <<100, 500>>]
    ELSE
        [tipo_produto |-> "produto", categoria_uso |-> "geral",
         estrategia |-> "comercial", publico |-> "consumidores brasileiros",
         contexto |-> "uso cotidiano", preco |-> <<50, 500>>]

_mock_analysis_free(prompt) ==
    LET c == mock_context_free(lower(prompt))
    IN  [produto_identificado |-> prompt,
         tipo_produto |-> c.tipo_produto,
         marca |-> "Premium",
         categoria_uso |-> c.categoria_uso,
         publico_alvo_sugerido |-> c.publico,
         preco_estimado |-> c.preco,
         estrategia_recomendada |-> c.estrategia,
         contexto_uso |-> c.contexto]

\* AIGeneratorReal._mock_analysis_expanded: product type
mock_tipo_produto(prompt_lower) ==
    IF any_in(kw_smartphone, prompt_lower) THEN "smartphone"
    ELSE IF any_in(kw_notebook, prompt_lower) THEN "notebook"
    ELSE IF any_in(kw_tablet, prompt_lower) THEN "tablet"
    ELSE IF any_in(kw_smart_tv, prompt_lower) THEN "smart_tv"
    ELSE IF any_in(kw_fone, prompt_lower) THEN "fone"
    ELSE IF any_in(kw_smartwatch, prompt_lower) THEN "smartwatch"
    ELSE IF any_in(kw_caixa_som, prompt_lower) THEN "caixa_som"
    ELSE "eletronico"

\* brand and base price
mock_marca(prompt_lower, tipo_produto) ==
    IF any_in(kw_apple, prompt_lower) THEN
        [marca |-> "Apple", preco_base |-> IF tipo_produto = "smartphone" THEN 5000 ELSE 7000]
    ELSE IF any_in(kw_samsung, prompt_lower) THEN
        [marca |-> "Samsung", preco_base |-> IF tipo_produto = "smartphone" THEN 3500 ELSE 4000]
    ELSE IF any_in(kw_xiaomi, prompt_lower) THEN [marca |-> "Xiaomi", preco_base |-> 2000]
    ELSE IF any_in(kw_motorola, prompt_lower) THEN [marca |-> "Motorola", preco_base |-> 1500]
    ELSE [marca |-> "Premium", preco_base |-> 2500]

\* usage category and recommended strategy
mock_categoria_uso(prompt_lower, marca) ==
    IF any_in(kw_gamer, prompt_lower) THEN
        [categoria_uso |-> "gamer", estrategia |-> "gamer"]
    ELSE IF any_in(kw_profissional, prompt_lower) THEN
        [categoria_uso |-> "profissional", estrategia |-> "profissional"]
    ELSE IF marca \in {"Apple", "Samsung"} /\ Contains(prompt_lower, <<"p","r","o">>) THEN
        [categoria_uso |-> "premium", estrategia |-> "premium"]
    ELSE
        [categoria_uso |-> "casual", estrategia |-> "custo_beneficio"]

\* condition and price factor, in hundredths (0.75, 0.60, 1.0)
mock_condicao(prompt_lower) ==
    IF Contains(prompt_lower, <<"s","e","m","i","n","o","v","o">>) THEN
        [categoria |-> "seminovo", fator_preco |-> 75]
    ELSE IF Contains(prompt_lower, <<"u","s","a","d","o">>) THEN
        [categoria |-> "usado", fator_preco |-> 60]
    ELSE [categoria |-> "novo", fator_preco |-> 100]

\* AIGeneratorReal._get_target_audience
_get_target_audience(tipo_produto, categoria_uso, marca) ==
    IF categoria_uso = "gamer" THEN "gamers"
    ELSE IF categoria_uso = "profissional" THEN "profissionais"
    ELSE IF marca = "Apple" THEN "usuarios Apple"
    ELSE IF tipo_produto = "smartphone" THEN "usuarios de smartphone"
    ELSE "consumidores de eletronicos"

_mock_analysis_expanded(prompt) ==
    LET pl == lower(prompt)
        tipo == mock_tipo_produto(pl)
        m == mock_marca(pl, tipo)
        u == mock_categoria_uso(pl, m.marca)
        c == mock_condicao(pl)
        preco_final == (m.preco_base * c.fator_preco) \div 100
    IN  [produto_identificado |-> prompt,
         tipo_produto |-> tipo,
         marca |-> m.marca,
         categoria |-> c.categoria,
         categoria_uso |-> u.categoria_uso,
         publico_alvo_sugerido |-> _get_target_audience(tipo, u.categoria_uso, m.marca),
         preco_estimado |-> <<preco_final - 500, preco_final + 500>>,
         estrategia_recomendada |-> u.estrategia]

\* AIFree._smart_local_analysis
_smart_local_analysis(prompt) ==
    LET pl == lower(prompt)
        m == IF Contains(pl, <<"i","p","h","o","n","e">>) THEN [marca |-> "Apple", preco_base |-> 3000]
             ELSE IF Contains(pl, <<"s","a","m","s","u","n","g">>)
                  THEN [marca |-> "Samsung", preco_base |-> 2500]
             ELSE [marca |-> "Premium", preco_base |-> 2000]
    IN  [produto_identificado |-> prompt,
         marca |-> m.marca,
         categoria |-> IF Contains(pl, <<"s","e","m","i","n","o","v","o">>) THEN "seminovo" ELSE "novo",
         publico_alvo_sugerido |-> "usuarios da marca",
         preco_estimado |-> <<m.preco_base - 500, m.preco_base + 500>>]

----------------------------------------------------------------------------
(* Values exchanged with the handlers and the providers                     *)

P_iphone == <<"i","P","h","o","n","e"," ","1","5"," ","P","r","o"," ","M","a","x"," ",
              "2","5","6","G","B"," ","s","e","m","i","n","o","v","o">>
P_blank == <<" ">>
P_empty == <<>>

\* prompts sent by clients
Prompts == {P_iphone, P_blank, P_empty}

\* product name written by the analysis provider
GroqName == <<"i","P","h","o","n","e"," ","1","5">>

MaxImageCount == 5
\* image_count values sent by clients; 3 is the documented default
ImageCounts == {3, MaxImageCount}

Endpoints == {"generate-free", "generate"}

Requests ==
    [endpoint : Endpoints, prompt : Prompts, image_count : ImageCounts]
    \cup [endpoint : Endpoints, image_count : ImageCounts]     \* no "prompt" key

\* dict.get(k, default)
get(d, k, default) == IF k \in DOMAIN d THEN d[k] ELSE default

\* Python truthiness of a text-or-null value
truthy(v) == v # <<>> /\ v # JsonNull

None == [none |-> TRUE]
IsNone(v) == "none" \in DOMAIN v

\* a JSON value that is not an object although an object was asked for
\* (a string or a list in which the required key names occur)
NotObject == [not_object |-> TRUE]
IsObject(v) == "not_object" \notin DOMAIN v /\ "none" \notin DOMAIN v

\* outcome of one awaited HTTP call: "200" with a body, a non-200 status,
\* a timeout, or a transport exception
FailedCalls == {[status |-> s] : s \in {"http_error", "timeout", "exception"}}

\* an analysis object as the provider writes it
GroqAnalysisObject(name) ==
    [produto_identificado |-> name, tipo_produto |-> "smartphone", marca |-> "Apple",
     categoria |-> "novo", categoria_uso |-> "pessoal", publico_alvo_sugerido |-> "fas de tecnologia",
     preco_estimado |-> <<4000, 6000>>, estrategia_recomendada |-> "premium",
     contexto_uso |-> "comunicacao"]

\* bodies of a 200 answer to the analysis call, after json.loads
GroqAnalysisBodies ==
    {[json |-> "unparseable"]}
    \cup {[json |-> "value", value |-> GroqAnalysisObject(n)] : n \in {GroqName, <<>>, JsonNull}}
    \cup {[json |-> "value", value |-> [produto_identificado |-> GroqName, tipo_produto |-> "smartphone"]]}
    \cup {[json |-> "value", value |-> NotObject]}

GroqAnalysisReplies ==
    FailedCalls \cup {[status |-> "200", body |-> b] : b \in GroqAnalysisBodies}

\* lengths of the copy text a provider may write (after the cleaning)
CopyTextLens == {9, 80, 121}

GroqCopyReplies ==
    FailedCalls
    \cup {[status |-> "200", body |-> [json |-> "unparseable"]]}
    \cup {[status |-> "200", body |-> [json |-> "value", len |-> n]] : n \in CopyTextLens}

\* most references a search returns: ranked[:8] and all_refs[:5]
MaxUniversalRefs == 8
MaxBasicRefs == 5

HFReplies ==
    FailedCalls \cup {[status |-> "200", bytes |-> b] : b \in {"image", "too_small"}}

----------------------------------------------------------------------------
(* FreeSearchAISystem: analysis                                             *)

required_fields == {"produto_identificado", "tipo_produto", "marca"}

\* _groq_analysis_free, from the answer of the provider
_groq_analysis_free(reply) ==
    IF reply.status # "200" THEN None
    ELSE IF reply.body.json = "unparseable" THEN None
    ELSE IF reply.body.value = NotObject THEN reply.body.value
    ELSE IF required_fields \subseteq DOMAIN reply.body.value THEN reply.body.value
    ELSE None

\* analyze_with_openai; reply is the provider's answer when groq_key is set
analyze_with_openai(prompt, groq_key, reply) ==
    LET a == IF groq_key THEN _groq_analysis_free(reply) ELSE None
    IN  IF ~IsNone(a) THEN a ELSE _mock_analysis_free(prompt)

----------------------------------------------------------------------------
(* FreeSearchAISystem: copies                                               *)

_get_copy_strategies(estrategia_recomendada, num_copies) ==
    LET selected ==
            IF estrategia_recomendada = "urgencia"
                THEN <<"URGENCIA", "CUSTO_BENEFICIO", "COMERCIAL">>
            ELSE IF estrategia_recomendada = "premium"
                THEN <<"PREMIUM", "PROFISSIONAL", "COMERCIAL">>
            ELSE IF estrategia_recomendada = "profissional"
                THEN <<"PROFISSIONAL", "PREMIUM", "COMERCIAL">>
            ELSE <<"COMERCIAL", "CUSTO_BENEFICIO", "URGENCIA">>
    IN  SubSeq(selected, 1, IF num_copies < 3 THEN num_copies ELSE 3)

\* a variant of _create_fallback_copy that numbers the copy from 0; a copy
\* text is the template it was built from and the product name put in it, or
\* the length of a text written by the provider
_create_fallback_copy_from_zero(product_data, copy_id, strategy) ==
    [id |-> copy_id - 1,
     texto |-> [by |-> "template", tpl |-> strategy,
                produto |-> get(product_data, "produto_identificado", <<"p","r","o","d","u","t","o">>)],
     estrategia |-> strategy,
     confidence |-> 75,
     generated_by |-> "groq_fallback"]

_create_fallback_copy(product_data, copy_id, strategy) ==
    [id |-> copy_id,
     texto |-> [by |-> "template", tpl |-> strategy,
                produto |-> get(product_data, "produto_identificado", <<"p","r","o","d","u","t","o">>)],
     estrategia |-> strategy,
     confidence |-> 75,
     generated_by |-> "groq_fallback"]

\* one iteration of the loop of _groq_copies_free: the copy appended
groq_copy(product_data, i, strategy, reply) ==
    IF /\ reply.status = "200"
       /\ reply.body.json = "value"
       /\ reply.body.len <= 120 /\ reply.body.len >= 10
    THEN [id |-> i,
          texto |-> [by |-> "groq", len |-> reply.body.len],
          estrategia |-> strategy,
          confidence |-> 93,
          generated_by |-> "groq_real"]
    ELSE _create_fallback_copy(product_data, i, strategy)

_mock_copies_free(product_data, num_copies) ==
    LET produto == get(product_data, "produto_identificado", <<"p","r","o","d","u","t","o">>)
        all == << [id |-> 1, texto |-> [by |-> "mock", tpl |-> "COMERCIAL", produto |-> produto],
                   estrategia |-> "COMERCIAL", confidence |-> 80, generated_by |-> "mock_fallback"],
                  [id |-> 2, texto |-> [by |-> "mock", tpl |-> "URGENCIA", produto |-> produto],
                   estrategia |-> "URGENCIA", confidence |-> 80, generated_by |-> "mock_fallback"],
                  [id |-> 3, texto |-> [by |-> "mock", tpl |-> "PREMIUM", produto |-> produto],
                   estrategia |-> "PREMIUM", confidence |-> 80, generated_by |-> "mock_fallback"] >>
    IN  SubSeq(all, 1, IF num_copies < 3 THEN num_copies ELSE 3)

\* characters of the fixed part of each text template of _create_fallback_copy
\* and of _mock_copies_free (the product name is put into it as it is)
fallback_template_len ==
    [URGENCIA |-> 33, PREMIUM |-> 27, CUSTO_BENEFICIO |-> 28, PROFISSIONAL |-> 30, COMERCIAL |-> 24]
mock_template_len == [COMERCIAL |-> 29, URGENCIA |-> 34, PREMIUM |-> 33]

\* len(copy['texto']) of a copy of the free pipeline
copy_text_len(texto) ==
    IF texto.by = "groq" THEN texto.len
    ELSE IF texto.by = "mock" THEN mock_template_len[texto.tpl] + Len(texto.produto)
    ELSE (IF texto.tpl \in DOMAIN fallback_template_len THEN fallback_template_len[texto.tpl] ELSE 13)
         + Len(texto.produto)

\* a variant of the end of generate_copies_with_openai that keeps every
\* provider list that is not empty
generate_copies_result_unchecked(groq_list, product_data, num_copies) ==
    IF Len(groq_list) > 0
    THEN groq_list
    ELSE _mock_copies_free(product_data, num_copies)

\* the end of generate_copies_with_openai: the provider list is kept only
\* when it holds a copy written by the provider
generate_copies_result(groq_list, product_data, num_copies) ==
    IF \E i \in 1..Len(groq_list) : groq_list[i].generated_by = "groq_real"
    THEN groq_list
    ELSE _mock_copies_free(product_data, num_copies)

----------------------------------------------------------------------------
(* Reference search: TrulyUniversalSearch.search_any_product and the basic  *)
(* fallback of FreeSearchAISystem.  A search result is the number of        *)
(* references kept and the search that found them.                          *)

NoRefs == [count |-> 0, via |-> "none"]

\* _create_smart_fallback_strategies raises: _guess_usage_context lowers the
\* product name, and direct_terms takes produto.split()[0] when no keyword was
\* extracted from a non-empty name (no keyword is extracted from a name
\* without words)
fallback_strategies_raise(product_data) ==
    LET produto == get(product_data, "produto_identificado", <<>>)
    IN  \/ ~IsText(produto)
        \/ produto # <<>> /\ split(produto) = <<>>

\* answers to the search-strategy call of _ai_create_search_strategies
StrategyReplies ==
    FailedCalls \cup {[status |-> "200", body |-> b] : b \in {"unparseable", "strategies", "not_objects"}}

\* search_any_product raises (the caller catches it)
universal_search_raises(product_data, groq_key, reply) ==
    LET from_ai == groq_key /\ reply.status = "200" /\ reply.body # "unparseable"
    IN  \/ ~from_ai /\ fallback_strategies_raise(product_data)
        \/ from_ai /\ reply.body = "not_objects"                            \* strategy.get
        \/ ~IsText(get(product_data, "produto_identificado", <<>>))         \* _universal_relevance_filter

\* numbers of references a search API answer can lead to, up to max
RefCounts(max) == {0, max}

\* references search_any_product can return when it does not raise
universal_results(c) ==
    IF c.pexels \/ c.unsplash \/ c.pixabay
    THEN {[count |-> n, via |-> "universal"] : n \in RefCounts(MaxUniversalRefs)}
    ELSE {[count |-> 0, via |-> "universal"]}

\* references _search_basic_fallback can return (Pexels only)
basic_results(c) ==
    IF c.pexels
    THEN {[count |-> n, via |-> "basic"] : n \in RefCounts(MaxBasicRefs)}
    ELSE {[count |-> 0, via |-> "basic"]}

\* _search_free_product_images: the lists it can return.  An exception of the
\* universal search and an empty result both lead to the basic fallback.
search_results(product_data, c, reply) ==
    LET u == IF universal_search_raises(product_data, c.groq, reply)
             THEN {} ELSE universal_results(c)
    IN  {r \in u : r.count > 0}
        \cup (IF universal_search_raises(product_data, c.groq, reply) \/ \E r \in u : r.count = 0
              THEN basic_results(c) ELSE {})

----------------------------------------------------------------------------
(* Image prompts                                                            *)

style_for(strategy) ==
    IF strategy = "URGENCIA" THEN "Dynamic Energy"
    ELSE IF strategy = "PREMIUM" THEN "Premium Luxury"
    ELSE IF strategy = "PROFISSIONAL" THEN "Professional Tech"
    ELSE "Commercial Standard"

_create_smart_prompts_free(copies_, num_images) ==
    [i \in 1..num_images |->
        LET strategy == IF i <= Len(copies_) THEN get(copies_[i], "estrategia", "COMERCIAL")
                        ELSE "COMERCIAL"
        IN  [id |-> i, strategy |-> strategy, style |-> style_for(strategy), reference_based |-> TRUE]]

\* how many prompts more than asked a provider may write
MaxExtraPrompts == 1

\* lists the prompt-writing provider may put under "prompts"
GroqPromptLists(copies_, num_images) ==
    {[i \in 1..k |-> [id |-> i,
                      strategy |-> IF i <= Len(copies_) THEN copies_[i].estrategia ELSE "COMERCIAL",
                      style |-> "groq"]] : k \in {0, num_images, num_images + MaxExtraPrompts}}
    \cup {[i \in 1..num_images |-> [id |-> i, strategy |-> "LIFESTYLE", style |-> "groq"]]}
    \cup {[i \in 1..num_images |-> NotObject]}

GroqPromptReplies(copies_, num_images) ==
    FailedCalls
    \cup {[status |-> "200", body |-> [json |-> j]] : j \in {"unparseable", "no_prompts_key"}}
    \cup {[status |-> "200", body |-> [json |-> "value", prompts |-> l]] :
            l \in GroqPromptLists(copies_, num_images)}

_create_prompts_with_groq(copies_, num_images, reply) ==
    IF reply.status = "200" /\ reply.body.json = "value"
    THEN reply.body.prompts
    ELSE _create_smart_prompts_free(copies_, num_images)

----------------------------------------------------------------------------
(* Images.  confidence is in hundredths.                                    *)

\* _generate_with_huggingface_free: the image, or None
_generate_with_huggingface_free(prompt_data, references, image_id, reply) ==
    IF IsObject(prompt_data) /\ reply.status = "200" /\ reply.bytes = "image"
    THEN [id |-> image_id,
          style |-> get(prompt_data, "style", "Free AI Generated"),
          strategy |-> get(prompt_data, "strategy", "None"),
          generated_by |-> "huggingface_free",
          confidence |-> 88,
          reference_count |-> references.count]
    ELSE None

\* _create_reference_based_mock raises: prompt_data.get on a non-object,
\* produto.replace on a non-text
reference_mock_raises(product_data, prompt_data) ==
    \/ ~IsObject(prompt_data)
    \/ ~IsText(get(product_data, "produto_identificado", <<"p","r","o","d","u","t","o">>))

_create_reference_based_mock(product_data, prompt_data, references, image_id) ==
    LET strategy == get(prompt_data, "strategy", "COMERCIAL")
    IN  [id |-> image_id,
         style |-> strategy,
         strategy |-> strategy,
         generated_by |-> "free_reference_mock",
         confidence |-> 80 + references.count * 3,
         reference_count |-> references.count]

----------------------------------------------------------------------------
(* AIGeneratorReal: the previous generator, loaded when the free system     *)
(* cannot be imported.                                                      *)

required_fields_expanded == {"produto_identificado", "tipo_produto", "marca", "categoria"}

\* _groq_analysis_expanded, from the answer of the provider
_groq_analysis_expanded(reply) ==
    IF reply.status # "200" THEN None
    ELSE IF reply.body.json = "unparseable" THEN None
    ELSE IF reply.body.value = NotObject THEN reply.body.value
    ELSE IF required_fields_expanded \subseteq DOMAIN reply.body.value THEN reply.body.value
    ELSE None

\* AIGeneratorReal.analyze_with_openai raises: result.get on a value that is
\* not an object
expanded_analysis_raises(groq_key, reply) ==
    groq_key /\ _groq_analysis_expanded(reply) = NotObject

\* AIGeneratorReal.analyze_with_openai
analyze_with_openai_expanded(prompt, groq_key, reply) ==
    LET result == IF groq_key THEN _groq_analysis_expanded(reply) ELSE None
    IN  IF ~IsNone(result) /\ truthy(result.produto_identificado)
        THEN result
        ELSE _mock_analysis_expanded(prompt)

\* product types in which the word 'gamer' occurs
TiposWithGamer == {"notebook gamer", "gamer"}

campaign_type ==
    [URGENCIA |-> "conversion", PREMIUM |-> "branding", CUSTO_BENEFICIO |-> "value",
     PROFISSIONAL |-> "professional", GAMER |-> "gaming", LIFESTYLE |-> "lifestyle"]

_get_strategies_for_product(estrategia_recomendada, tipo_produto, categoria_uso, num_copies) ==
    LET selected ==
            IF categoria_uso = "gamer" \/ tipo_produto \in TiposWithGamer
            THEN <<"GAMER", "PREMIUM", "URGENCIA">>
            ELSE IF categoria_uso = "profissional" \/ tipo_produto \in {"notebook", "tablet"}
            THEN <<"PROFISSIONAL", "PREMIUM", "CUSTO_BENEFICIO">>
            ELSE IF estrategia_recomendada = "premium"
            THEN <<"PREMIUM", "LIFESTYLE", "PROFISSIONAL">>
            ELSE IF estrategia_recomendada = "urgencia"
            THEN <<"URGENCIA", "CUSTO_BENEFICIO", "LIFESTYLE">>
            ELSE <<"CUSTO_BENEFICIO", "URGENCIA", "PREMIUM">>
        n == IF num_copies < 3 THEN num_copies ELSE 3
    IN  [i \in 1..n |-> [name |-> selected[i], campaign_type |-> campaign_type[selected[i]]]]

\* the strategies of the copies of one analysis
strategies_of(product_data, num_copies) ==
    _get_strategies_for_product(get(product_data, "estrategia_recomendada", "custo_beneficio"),
                                get(product_data, "tipo_produto", "eletronico"),
                                get(product_data, "categoria_uso", "casual"),
                                num_copies)

_create_mock_copy_strategic(product_data, copy_id, strategy) ==
    [id |-> copy_id,
     texto |-> [by |-> "template", tpl |-> strategy.name,
                produto |-> get(product_data, "produto_identificado", <<"p","r","o","d","u","t","o">>)],
     estrategia |-> strategy.name,
     tipo_campanha |-> strategy.campaign_type,
     confidence |-> 78,
     generated_by |-> "strategic_mock"]

\* one iteration of the loop of _groq_copies_with_strategies: the copy appended
groq_copy_strategic(product_data, i, strategy, reply) ==
    IF /\ reply.status = "200"
       /\ reply.body.json = "value"
       /\ reply.body.len <= 120
    THEN [id |-> i,
          texto |-> [by |-> "groq", len |-> reply.body.len],
          estrategia |-> strategy.name,
          tipo_campanha |-> strategy.campaign_type,
          confidence |-> 92,
          generated_by |-> "groq_real"]
    ELSE _create_mock_copy_strategic(product_data, i, strategy)

_mock_copies_with_strategies(product_data, num_copies) ==
    LET strategies == strategies_of(product_data, num_copies)
    IN  [i \in 1..Len(strategies) |->
            [id |-> i,
             texto |-> _create_mock_copy_strategic(product_data, i, strategies[i]).texto,
             estrategia |-> strategies[i].name,
             tipo_campanha |-> strategies[i].campaign_type,
             confidence |-> 85,
             generated_by |-> "strategic_mock"]]

\* the end of AIGeneratorReal.generate_copies_with_openai
generate_copies_result_strategic(groq_list, product_data, num_copies) ==
    IF \E i \in 1..Len(groq_list) : groq_list[i].generated_by = "groq_real"
    THEN groq_list
    ELSE _mock_copies_with_strategies(product_data, num_copies)

basic_style_for(strategy) ==
    IF strategy = "URGENCIA" THEN "Dinamico Urgente"
    ELSE IF strategy = "PREMIUM" THEN "Premium Luxo"
    ELSE IF strategy = "GAMER" THEN "Gaming RGB"
    ELSE IF strategy = "PROFISSIONAL" THEN "Profissional Clean"
    ELSE "Clean Padrao"

_generate_basic_image_prompts(product_data, copies_, num_images) ==
    [i \in 1..num_images |->
        LET strategy == IF i <= Len(copies_) THEN get(copies_[i], "estrategia", "PADRAO")
                        ELSE "PADRAO"
        IN  [id |-> i, style |-> basic_style_for(strategy), strategy |-> strategy]]

\* values the prompt-writing provider may put under "image_prompts"
GroqImagePromptLists(copies_, num_images) ==
    {[i \in 1..k |-> [id |-> i,
                      strategy |-> IF i <= Len(copies_) THEN copies_[i].estrategia ELSE "PADRAO",
                      style |-> "groq"]] : k \in {0, num_images, num_images + MaxExtraPrompts}}
    \cup {[i \in 1..num_images |-> IF i = 2 THEN NotObject
                                   ELSE [id |-> i, strategy |-> "PREMIUM", style |-> "groq"]]}

GroqImagePromptReplies(copies_, num_images) ==
    FailedCalls
    \cup {[status |-> "200", body |-> [json |-> j]] : j \in {"unparseable", "no_prompts_key"}}
    \cup {[status |-> "200", body |-> [json |-> "value", prompts |-> l]] :
            l \in GroqImagePromptLists(copies_, num_images)}

_generate_image_prompts_with_ai(product_data, copies_, num_images, groq_key, reply) ==
    IF groq_key /\ reply.status = "200" /\ reply.body.json = "value"
    THEN reply.body.prompts
    ELSE _generate_basic_image_prompts(product_data, copies_, num_images)

StabilityReplies ==
    FailedCalls \cup {[status |-> "200", artifacts |-> n] : n \in {0, 1}}

\* ImageGeneratorIntelligent._generate_with_stability: the image, or None
_generate_with_stability(prompt_data, image_id, reply) ==
    IF reply.status = "200" /\ reply.artifacts > 0
    THEN [id |-> image_id,
          style |-> get(prompt_data, "style", "AI Generated"),
          strategy |-> get(prompt_data, "strategy", "N/A"),
          generated_by |-> "stability_ai_with_groq",
          confidence |-> 96]
    ELSE None

\* ImageGeneratorIntelligent._generate_with_huggingface: the image, or None
_generate_with_huggingface(prompt_data, image_id, reply) ==
    IF reply.status = "200" /\ reply.bytes = "image"
    THEN [id |-> image_id,
          style |-> get(prompt_data, "style", "AI Generated"),
          strategy |-> get(prompt_data, "strategy", "N/A"),
          generated_by |-> "huggingface_with_groq",
          confidence |-> 92]
    ELSE None

\* ImageGeneratorIntelligent._create_strategy_mock
_create_strategy_mock(product_data, prompt_data, image_id) ==
    [id |-> image_id,
     style |-> get(prompt_data, "style", "Style"),
     strategy |-> get(prompt_data, "strategy", "PADRAO"),
     generated_by |-> "intelligent_mock",
     confidence |-> 82]

mock_styles(categoria_uso) ==
    IF categoria_uso = "gamer" THEN <<"Gaming+RGB", "Neon+Setup", "Pro+Gamer">>
    ELSE IF categoria_uso = "profissional" THEN <<"Office+Pro", "Business+Clean", "Corporate">>
    ELSE <<"Studio+Pro", "Lifestyle", "Premium">>

\* AIGeneratorReal._mock_images
_mock_images(product_data, num_images) ==
    LET styles == mock_styles(get(product_data, "categoria_uso", "casual"))
        n == IF num_images < 3 THEN num_images ELSE 3
    IN  [i \in 1..n |->
            [id |-> i,
             style |-> styles[i],
             strategy |-> <<"MOCK_1", "MOCK_2", "MOCK_3">>[i],
             generated_by |-> "intelligent_mock",
             confidence |-> 75]]


----------------------------------------------------------------------------
(* main.py: create_free_campaign and the statistics of the response         *)

budget_map == [smartphone |-> 200, notebook |-> 250, alimento |-> 100, servico |-> 150, produto |-> 150]

RECURSIVE total_references(_)
total_references(imgs) ==
    IF imgs = <<>> THEN 0 ELSE get(Head(imgs), "reference_count", 0) + total_references(Tail(imgs))

\* create_free_campaign raises: produto.split()[0]
create_campaign_raises(analysis_) ==
    LET produto == get(analysis_, "produto_identificado", <<"p","r","o","d","u","t","o">>)
    IN  ~IsText(produto) \/ split(produto) = <<>>

\* a campaign whose total covers thirty days
create_free_campaign_monthly(analysis_, copies_, images_) ==
    LET produto == get(analysis_, "produto_identificado", <<"p","r","o","d","u","t","o">>)
        tipo_produto == get(analysis_, "tipo_produto", "produto")
        budget_daily == IF tipo_produto \in DOMAIN budget_map THEN budget_map[tipo_produto] ELSE 150
    IN  [nome_campanha |-> split(produto)[1],
         objetivo |-> "CONVERSIONS",
         orcamento |-> [diario |-> budget_daily, duracao |-> 7, total |-> budget_daily * 30],
         segmentacao |-> [produto |-> produto,
                          tipo |-> tipo_produto,
                          publico |-> get(analysis_, "publico_alvo_sugerido", "Publico geral"),
                          estrategia |-> get(analysis_, "estrategia_recomendada", "comercial")],
         criativos |-> [copies_disponiveis |-> Len(copies_),
                        imagens_disponiveis |-> Len(images_),
                        referencias_reais_encontradas |-> total_references(images_),
                        qualidade |-> IF total_references(images_) > 0 THEN "desenvolvimento" ELSE "mock"]]

create_free_campaign(analysis_, copies_, images_) ==
    LET produto == get(analysis_, "produto_identificado", <<"p","r","o","d","u","t","o">>)
        tipo_produto == get(analysis_, "tipo_produto", "produto")
        budget_daily == IF tipo_produto \in DOMAIN budget_map THEN budget_map[tipo_produto] ELSE 150
    IN  [nome_campanha |-> split(produto)[1],
         objetivo |-> "CONVERSIONS",
         orcamento |-> [diario |-> budget_daily, duracao |-> 7, total |-> budget_daily * 7],
         segmentacao |-> [produto |-> produto,
                          tipo |-> tipo_produto,
                          publico |-> get(analysis_, "publico_alvo_sugerido", "Publico geral"),
                          estrategia |-> get(analysis_, "estrategia_recomendada", "comercial")],
         criativos |-> [copies_disponiveis |-> Len(copies_),
                        imagens_disponiveis |-> Len(images_),
                        referencias_reais_encontradas |-> total_references(images_),
                        qualidade |-> IF total_references(images_) > 0 THEN "desenvolvimento" ELSE "mock"]]

count(seq, Test(_)) == Cardinality({i \in 1..Len(seq) : Test(seq[i])})

\* provenance tags in which the words 'free' and 'mock' occur
TagsWithFree == {"huggingface_free", "free_reference_mock"}
TagsWithMock == {"free_reference_mock", "mock_fallback", "intelligent_mock", "strategic_mock"}

\* generation_stats of the first definition of generate_free_campaign
\* (the one the route /api/ai/generate-free is registered with)
generation_stats_first(prompt, analysis_, copies_, images_) ==
    LET real_image(img) == /\ get(img, "generated_by", "") \in TagsWithFree
                           /\ get(img, "generated_by", "") \notin TagsWithMock
        real_copy(c) == get(c, "generated_by", "None") = "groq_real"
    IN  [real_analysis |-> TRUE,
         real_copies |-> count(copies_, real_copy),
         mock_copies |-> Len(copies_) - count(copies_, real_copy),
         real_images |-> count(images_, real_image),
         mock_images |-> Len(images_) - count(images_, real_image),
         total_references_found |-> total_references(images_)]

\* generation_stats of the second definition (the one generate_standard_campaign calls)
generation_stats_second(prompt, analysis_, copies_, images_) ==
    LET real_image(img) == get(img, "generated_by", "None") \in {"huggingface_free"}
        real_copy(c) == get(c, "generated_by", "None") = "groq_real"
    IN  [real_analysis |-> get(analysis_, "produto_identificado", JsonNull) # prompt,
         real_copies |-> count(copies_, real_copy),
         mock_copies |-> Len(copies_) - count(copies_, real_copy),
         real_images |-> count(images_, real_image),
         mock_images |-> Len(images_) - count(images_, real_image),
         total_references_found |-> total_references(images_)]

----------------------------------------------------------------------------
(* The request handlers of main.py over the system that was loaded          *)

NoReq == [endpoint |-> "none"]
NoResp == [status |-> 0]
NoCall == [status |-> "no_call"]
NoTrace ==
    [stages |-> <<>>, groq_calls |-> 0, hf_calls |-> 0, stability_calls |-> 0,
     copy_ok |-> 0, analysis_by |-> "none", attempts |-> <<>>]

\* ghost: one invocation of a tier for an item, which made the item or failed
Made(tier) == [tier |-> tier, ok |-> TRUE]
Failed(tier) == [tier |-> tier, ok |-> FALSE]

\* FreeSearchAISystem.get_free_status and is_free_generation_available
get_free_status(c) ==
    [search_apis |-> [pexels |-> c.pexels, unsplash |-> c.unsplash, pixabay |-> c.pixabay],
     ai_apis |-> [groq |-> c.groq, huggingface |-> c.hf],
     features |-> [ai_prompt_generation |-> c.groq, ai_image_generation |-> c.hf,
                   ai_copy_generation |-> c.groq],
     production_ready |-> c.groq /\ (c.pexels \/ c.unsplash)]

is_free_generation_available(c) == (c.pexels \/ c.unsplash \/ c.pixabay) /\ c.hf

\* AIGeneratorReal.is_available, with ImageGeneratorIntelligent.get_status
is_available(c) ==
    [mode |-> IF c.groq THEN "groq" ELSE "mock",
     groq |-> c.groq,
     images |-> [primary_strategy |-> IF c.stability THEN "stability"
                                      ELSE IF c.hf THEN "huggingface" ELSE "mock",
                 availability |-> [stability |-> c.stability, huggingface |-> c.hf]],
     real_images_available |-> c.stability \/ c.hf]

\* what the status routes of main.py report about the loaded system
status_query(system, c) ==
    IF system = "free"
    THEN [system |-> "free", status |-> get_free_status(c),
          available |-> is_free_generation_available(c)]
    ELSE IF system = "real" THEN [system |-> "real", status |-> is_available(c)]
    ELSE [system |-> "none"]

\* the credentials the loaded singletons read at construction:
\* FreeSearchAISystem reads GROQ_API_KEY, HUGGINGFACE_TOKEN and the three
\* photo-search keys; AIGeneratorReal and its ImageGeneratorIntelligent read
\* GROQ_API_KEY, STABILITY_API_KEY and HUGGINGFACE_TOKEN
CredConfigs(system) ==
    {c \in [groq : BOOLEAN, hf : BOOLEAN, stability : BOOLEAN,
            pexels : BOOLEAN, unsplash : BOOLEAN, pixabay : BOOLEAN] :
        /\ system = "free" => ~c.stability
        /\ system = "real" => ~c.pexels /\ ~c.unsplash /\ ~c.pixabay
        /\ system = "none" => ~c.groq /\ ~c.hf /\ ~c.stability /\ ~c.pexels /\ ~c.unsplash /\ ~c.pixabay}

\* hq: the analyzer harness (see the end of the module)
NoResult == [none |-> TRUE]
HarnessInit(p) ==
    [prompt |-> p, words |-> 0, free |-> NoResult, real |-> NoResult, local |-> NoResult,
     copies |-> <<>>, num_copies |-> 0, copies_by |-> "none"]

\* lg outside the specification of the generators main.py does not load
NoLegacy == [pc |-> "unused"]

\* cc outside the specification of two concurrent requests
NoConc == [running |-> 0]

Init ==
    /\ main_system \in {"free", "real", "none"}
    /\ creds \in CredConfigs(main_system)
    /\ pc = "idle"
    /\ req = NoReq
    /\ analysis = None
    /\ copies = <<>>
    /\ refs = NoRefs
    /\ prompts = <<>>
    /\ images = <<>>
    /\ resp = NoResp
    /\ trace = NoTrace
    /\ hq = HarnessInit(<<>>)
    /\ lg = NoLegacy
    /\ cc = NoConc

\* request.get("prompt", "")
prompt_of(r) == get(r, "prompt", <<>>)

\* the status the client sees for an exception raised with the given status:
\* generate_free_campaign re-raises an HTTPException as it is and turns any
\* other exception into 500; generate_standard_campaign turns every
\* exception, HTTPException included, into 500
raised(r, status) == IF r.endpoint = "generate" THEN 500 ELSE status

ErrorResponse(status) == [status |-> status, success |-> FALSE]

\* the handler ends with an exception
Fail(status) ==
    /\ resp' = ErrorResponse(raised(req, status))
    /\ pc' = "done"

\* the checks made before the first stage; 0 when the request is accepted
rejection(r) ==
    IF r.endpoint = "generate-free" \/ main_system = "free"
    THEN IF prompt_of(r) = <<>> THEN 400
         ELSE IF main_system # "free" THEN 503
         ELSE 0
    ELSE IF prompt_of(r) = <<>> THEN 400
         ELSE IF main_system = "none" THEN 503
         ELSE 0

\* a request arrives: POST /api/ai/generate-free or POST /api/ai/generate
Receive(r) ==
    /\ pc \in {"idle", "done"}
    /\ req' = r
    /\ analysis' = None
    /\ copies' = <<>>
    /\ refs' = NoRefs
    /\ prompts' = <<>>
    /\ images' = <<>>
    /\ trace' = NoTrace
    /\ IF rejection(r) # 0
       THEN /\ resp' = ErrorResponse(raised(r, rejection(r)))
            /\ pc' = "done"
       ELSE /\ resp' = NoResp
            /\ pc' = "analyze"
    /\ UNCHANGED <<creds, main_system, hq, lg, cc>>

\* [1/4] analysis = await main_system.analyze_with_openai(prompt)
Analyze(reply) ==
    /\ pc = "analyze"
    /\ main_system = "free"
    /\ reply \in (IF creds.groq THEN GroqAnalysisReplies ELSE {NoCall})
    /\ analysis' = analyze_with_openai(prompt_of(req), creds.groq, reply)
    /\ trace' = [trace EXCEPT !.stages = Append(@, "analyze"),
                              !.groq_calls = @ + (IF creds.groq THEN 1 ELSE 0),
                              !.analysis_by = IF creds.groq /\ ~IsNone(_groq_analysis_free(reply))
                                              THEN "groq" ELSE "mock"]
    /\ pc' = "copy"
    /\ UNCHANGED <<creds, main_system, req, copies, refs, prompts, images, resp, hq, lg, cc>>

\* a copy stage that clears the image token of the singleton
CopyMockDropsToken ==
    /\ pc = "copy"
    /\ main_system = "free"
    /\ ~creds.groq
    /\ copies' = _mock_copies_free(analysis, 3)
    /\ trace' = [trace EXCEPT !.stages = Append(@, "copy")]
    /\ pc' = "search"
    /\ creds' = [creds EXCEPT !.hf = FALSE]
    /\ UNCHANGED <<main_system, req, analysis, refs, prompts, images, resp, hq, lg, cc>>

\* [2/4] without a Groq key: the mock copies
CopyMock ==
    /\ pc = "copy"
    /\ main_system = "free"
    /\ ~creds.groq
    /\ copies' = _mock_copies_free(analysis, 3)
    /\ trace' = [trace EXCEPT !.stages = Append(@, "copy")]
    /\ pc' = "search"
    /\ UNCHANGED <<creds, main_system, req, analysis, refs, prompts, images, resp, hq, lg, cc>>

\* [2/4] the analysis is not an object: _groq_copies_free catches the
\* AttributeError of product_data.get and returns [], then _mock_copies_free
\* raises it again and the handler fails
CopyRaises ==
    /\ pc = "copy"
    /\ main_system = "free"
    /\ creds.groq
    /\ ~IsObject(analysis)
    /\ trace' = [trace EXCEPT !.stages = Append(@, "copy")]
    /\ Fail(500)
    /\ UNCHANGED <<creds, main_system, req, analysis, copies, refs, prompts, images, hq, lg, cc>>

\* [2/4] one iteration of the loop of _groq_copies_free; after the last one,
\* generate_copies_with_openai keeps the list or takes the mock copies
CopyGroq(reply) ==
    /\ pc = "copy"
    /\ main_system = "free"
    /\ creds.groq
    /\ IsObject(analysis)
    /\ reply \in GroqCopyReplies
    /\ LET strategies == _get_copy_strategies(get(analysis, "estrategia_recomendada", "comercial"), 3)
           i == Len(copies) + 1
           c == groq_copy(analysis, i, strategies[i], reply)
           list == Append(copies, c)
       IN  /\ trace' = [trace EXCEPT !.stages = IF i = 1 THEN Append(@, "copy") ELSE @,
                                     !.groq_calls = @ + 1,
                                     !.copy_ok = @ + (IF c.generated_by = "groq_real" THEN 1 ELSE 0)]
           /\ IF i < Len(strategies)
              THEN /\ copies' = list
                   /\ pc' = "copy"
              ELSE /\ copies' = generate_copies_result(list, analysis, 3)
                   /\ pc' = "search"
    /\ UNCHANGED <<creds, main_system, req, analysis, refs, prompts, images, resp, hq, lg, cc>>

\* [3/4] generate_images_with_free_search, 1: _search_free_product_images
Search(reply, found) ==
    /\ pc = "search"
    /\ reply \in (IF creds.groq THEN StrategyReplies ELSE {NoCall})
    /\ found \in search_results(analysis, creds, reply)
    /\ refs' = found
    /\ trace' = [trace EXCEPT !.stages = Append(@, "search"),
                              !.groq_calls = @ + (IF creds.groq THEN 1 ELSE 0)]
    /\ pc' = "prompts"
    /\ UNCHANGED <<creds, main_system, req, analysis, copies, prompts, images, resp, hq, lg, cc>>

\* [3/4] generate_images_with_free_search, 3: the image prompts; the handler
\* passes num_images=3
ImagePrompts(reply) ==
    /\ pc = "prompts"
    /\ main_system = "free"
    /\ reply \in (IF creds.groq THEN GroqPromptReplies(copies, 3) ELSE {NoCall})
    /\ prompts' = IF creds.groq THEN _create_prompts_with_groq(copies, 3, reply)
                  ELSE _create_smart_prompts_free(copies, 3)
    /\ trace' = [trace EXCEPT !.stages = Append(@, "prompts"),
                              !.groq_calls = @ + (IF creds.groq THEN 1 ELSE 0)]
    /\ pc' = IF prompts' = <<>> THEN "compose" ELSE "image"
    /\ UNCHANGED <<creds, main_system, req, analysis, copies, refs, images, resp, hq, lg, cc>>

\* [3/4] generate_images_with_free_search, 4: one iteration of the loop
Image(reply) ==
    /\ pc = "image"
    /\ main_system = "free"
    /\ LET i == Len(images) + 1
           called == creds.hf /\ IsObject(prompts[i])
           image == IF creds.hf
                    THEN _generate_with_huggingface_free(prompts[i], refs, i, reply)
                    ELSE None
       IN  /\ reply \in (IF called THEN HFReplies ELSE {NoCall})
           /\ trace' = [trace EXCEPT !.stages = IF i = 1 THEN Append(@, "image") ELSE @,
                                     !.hf_calls = @ + (IF called THEN 1 ELSE 0),
                                     !.attempts =
                                         Append(@, IF ~called THEN <<Made("mock")>>
                                                   ELSE IF IsNone(image)
                                                   THEN <<Failed("huggingface"), Made("mock")>>
                                                   ELSE <<Made("huggingface")>>)]
           /\ IF IsNone(image) /\ reference_mock_raises(analysis, prompts[i])
              THEN /\ Fail(500)
                   /\ UNCHANGED images
              ELSE /\ images' = Append(images,
                                       IF IsNone(image)
                                       THEN _create_reference_based_mock(analysis, prompts[i], refs, i)
                                       ELSE image)
                   /\ pc' = IF i = Len(prompts) THEN "compose" ELSE "image"
                   /\ UNCHANGED resp
    /\ UNCHANGED <<creds, main_system, req, analysis, copies, refs, prompts, hq, lg, cc>>

\* generate_standard_campaign with the previous generator:
\* analysis = await main_system.analyze_with_openai(prompt)
StandardAnalyze(reply) ==
    /\ pc = "analyze"
    /\ main_system = "real"
    /\ reply \in (IF creds.groq THEN GroqAnalysisReplies ELSE {NoCall})
    /\ trace' = [trace EXCEPT !.stages = Append(@, "analyze"),
                              !.groq_calls = @ + (IF creds.groq THEN 1 ELSE 0),
                              !.analysis_by =
                                  IF /\ creds.groq
                                     /\ IsObject(_groq_analysis_expanded(reply))
                                     /\ truthy(_groq_analysis_expanded(reply).produto_identificado)
                                  THEN "groq" ELSE "mock"]
    /\ IF expanded_analysis_raises(creds.groq, reply)
       THEN /\ Fail(500)
            /\ UNCHANGED analysis
       ELSE /\ analysis' = analyze_with_openai_expanded(prompt_of(req), creds.groq, reply)
            /\ pc' = "copy"
            /\ UNCHANGED resp
    /\ UNCHANGED <<creds, main_system, req, copies, refs, prompts, images, hq, lg, cc>>

\* copies = await main_system.generate_copies_with_openai(analysis, 3),
\* without a Groq key
StandardCopyMock ==
    /\ pc = "copy"
    /\ main_system = "real"
    /\ ~creds.groq
    /\ copies' = _mock_copies_with_strategies(analysis, 3)
    /\ trace' = [trace EXCEPT !.stages = Append(@, "copy")]
    /\ pc' = "prompts"
    /\ UNCHANGED <<creds, main_system, req, analysis, refs, prompts, images, resp, hq, lg, cc>>

\* one iteration of the loop of _groq_copies_with_strategies; after the last
\* one, generate_copies_with_openai keeps the list or takes the mock copies
StandardCopyGroq(reply) ==
    /\ pc = "copy"
    /\ main_system = "real"
    /\ creds.groq
    /\ reply \in GroqCopyReplies
    /\ LET strategies == strategies_of(analysis, 3)
           i == Len(copies) + 1
           c == groq_copy_strategic(analysis, i, strategies[i], reply)
           list == Append(copies, c)
       IN  /\ trace' = [trace EXCEPT !.stages = IF i = 1 THEN Append(@, "copy") ELSE @,
                                     !.groq_calls = @ + 1,
                                     !.copy_ok = @ + (IF c.generated_by = "groq_real" THEN 1 ELSE 0)]
           /\ IF i < Len(strategies)
              THEN /\ copies' = list
                   /\ pc' = "copy"
              ELSE /\ copies' = generate_copies_result_strategic(list, analysis, 3)
                   /\ pc' = "prompts"
    /\ UNCHANGED <<creds, main_system, req, analysis, refs, prompts, images, resp, hq, lg, cc>>

\* generate_images_with_replicate(analysis, copies, 3), 1: the image prompts
StandardImagePrompts(reply) ==
    /\ pc = "prompts"
    /\ main_system = "real"
    /\ reply \in (IF creds.groq THEN GroqImagePromptReplies(copies, 3) ELSE {NoCall})
    /\ prompts' = _generate_image_prompts_with_ai(analysis, copies, 3, creds.groq, reply)
    /\ trace' = [trace EXCEPT !.stages = Append(@, "prompts"),
                              !.groq_calls = @ + (IF creds.groq THEN 1 ELSE 0)]
    /\ pc' = IF prompts' = <<>> THEN "compose" ELSE "image"
    /\ UNCHANGED <<creds, main_system, req, analysis, copies, refs, images, resp, hq, lg, cc>>

\* the image of the current prompt is appended and the loop of
\* generate_with_ai_prompts goes on
image_done(image) ==
    /\ images' = Append(images, image)
    /\ pc' = IF Len(images) + 1 = Len(prompts) THEN "compose" ELSE "image"

\* generate_with_ai_prompts meets an entry that is not an object: the
\* exception is caught by generate_images_with_replicate, which returns
\* _mock_images in place of the images made so far
StandardImagesRaise ==
    /\ pc = "image"
    /\ main_system = "real"
    /\ ~IsObject(prompts[Len(images) + 1])
    /\ images' = _mock_images(analysis, 3)
    /\ trace' = [trace EXCEPT !.stages = IF Len(images) = 0 THEN Append(@, "image") ELSE @,
                              !.attempts = [j \in 1..3 |->
                                               Append(IF j <= Len(@) THEN @[j] ELSE <<>>, Made("mock"))]]
    /\ pc' = "compose"
    /\ UNCHANGED <<creds, main_system, req, analysis, copies, refs, prompts, resp, hq, lg, cc>>

\* first attempt for the current prompt: Stability AI
StandardImageStability(reply) ==
    /\ pc = "image"
    /\ main_system = "real"
    /\ creds.stability
    /\ IsObject(prompts[Len(images) + 1])
    /\ reply \in StabilityReplies
    /\ LET i == Len(images) + 1
           image == _generate_with_stability(prompts[i], i, reply)
       IN  /\ trace' = [trace EXCEPT !.stages = IF i = 1 THEN Append(@, "image") ELSE @,
                                     !.stability_calls = @ + 1,
                                     !.attempts =
                                         Append(@, IF ~IsNone(image) THEN <<Made("stability")>>
                                                   ELSE IF creds.hf THEN <<Failed("stability")>>
                                                   ELSE <<Failed("stability"), Made("mock")>>)]
           /\ IF ~IsNone(image) THEN image_done(image)
              ELSE IF creds.hf THEN pc' = "image_hf" /\ UNCHANGED images
              ELSE image_done(_create_strategy_mock(analysis, prompts[i], i))
    /\ UNCHANGED <<creds, main_system, req, analysis, copies, refs, prompts, resp, hq, lg, cc>>

\* second attempt for the current prompt: HuggingFace
StandardImageHuggingFace(reply) ==
    /\ main_system = "real"
    /\ creds.hf
    /\ \/ pc = "image_hf"
       \/ pc = "image" /\ ~creds.stability /\ IsObject(prompts[Len(images) + 1])
    /\ reply \in HFReplies
    /\ LET i == Len(images) + 1
           image == _generate_with_huggingface(prompts[i], i, reply)
           history == IF pc = "image_hf" THEN trace.attempts[i] ELSE <<>>
           tiers == IF IsNone(image) THEN <<Failed("huggingface"), Made("mock")>>
                    ELSE <<Made("huggingface")>>
       IN  /\ trace' = [trace EXCEPT !.stages = IF i = 1 /\ pc = "image" THEN Append(@, "image") ELSE @,
                                     !.hf_calls = @ + 1,
                                     !.attempts = SubSeq(@, 1, i - 1) \o <<history \o tiers>>]
           /\ IF ~IsNone(image) THEN image_done(image)
              ELSE image_done(_create_strategy_mock(analysis, prompts[i], i))
    /\ UNCHANGED <<creds, main_system, req, analysis, copies, refs, prompts, resp, hq, lg, cc>>

\* no image provider is configured: the strategy mock
StandardImageMock ==
    /\ pc = "image"
    /\ main_system = "real"
    /\ ~creds.stability /\ ~creds.hf
    /\ IsObject(prompts[Len(images) + 1])
    /\ LET i == Len(images) + 1
       IN  /\ trace' = [trace EXCEPT !.stages = IF i = 1 THEN Append(@, "image") ELSE @,
                                     !.attempts = Append(@, <<Made("mock")>>)]
           /\ image_done(_create_strategy_mock(analysis, prompts[i], i))
    /\ UNCHANGED <<creds, main_system, req, analysis, copies, refs, prompts, resp, hq, lg, cc>>

\* the response of generate_standard_campaign
StandardResponse ==
    [status |-> 200,
     success |-> TRUE,
     system |-> "STANDARD",
     analise_produto |-> analysis,
     copies_geradas |-> copies,
     imagens_geradas |-> images,
     campanha_completa |-> create_free_campaign(analysis, copies, images)]

\* the response of generate_free_campaign
FreeResponse ==
    [status |-> 200,
     success |-> TRUE,
     system |-> "FREE_SEARCH_AI",
     generation_stats |->
         IF req.endpoint = "generate-free"
         THEN generation_stats_first(prompt_of(req), analysis, copies, images)
         ELSE generation_stats_second(prompt_of(req), analysis, copies, images),
     analise_produto |-> analysis,
     copies_geradas |-> copies,
     imagens_geradas |-> images,
     campanha_completa |-> create_free_campaign(analysis, copies, images)]

\* a handler that builds the response while the image loop is still running
ComposeBeforeImages ==
    /\ pc \in {"image", "compose"}
    /\ trace' = [trace EXCEPT !.stages = Append(@, "compose")]
    /\ IF create_campaign_raises(analysis)
       THEN Fail(500)
       ELSE /\ resp' = IF main_system = "free" THEN FreeResponse ELSE StandardResponse
            /\ pc' = "done"
    /\ UNCHANGED <<creds, main_system, req, analysis, copies, refs, prompts, images, hq, lg, cc>>

\* [4/4] create_free_campaign, the statistics and the response
Compose ==
    /\ pc = "compose"
    /\ trace' = [trace EXCEPT !.stages = Append(@, "compose")]
    /\ IF create_campaign_raises(analysis)
       THEN Fail(500)
       ELSE /\ resp' = IF main_system = "free" THEN FreeResponse ELSE StandardResponse
            /\ pc' = "done"
    /\ UNCHANGED <<creds, main_system, req, analysis, copies, refs, prompts, images, hq, lg, cc>>

Next ==
    \/ \E r \in Requests : Receive(r)
    \/ \E reply \in GroqAnalysisReplies \cup {NoCall} : Analyze(reply)
    \/ CopyMock
    \/ CopyRaises
    \/ \E reply \in GroqCopyReplies : CopyGroq(reply)
    \/ \E reply \in StrategyReplies \cup {NoCall} :
         \E found \in universal_results(creds) \cup basic_results(creds) : Search(reply, found)
    \/ \E reply \in GroqPromptReplies(copies, 3) \cup {NoCall} : ImagePrompts(reply)
    \/ \E reply \in HFReplies \cup {NoCall} : Image(reply)
    \/ \E reply \in GroqAnalysisReplies \cup {NoCall} : StandardAnalyze(reply)
    \/ StandardCopyMock
    \/ \E reply \in GroqCopyReplies : StandardCopyGroq(reply)
    \/ \E reply \in GroqImagePromptReplies(copies, 3) \cup {NoCall} : StandardImagePrompts(reply)
    \/ StandardImagesRaise
    \/ \E reply \in StabilityReplies : StandardImageStability(reply)
    \/ \E reply \in HFReplies : StandardImageHuggingFace(reply)
    \/ StandardImageMock
    \/ Compose

Spec == Init /\ [][Next]_vars

----------------------------------------------------------------------------
(* Analyzer harness: the three keyword analyzers applied to prompts built   *)
(* from a vocabulary, one word at a time.                                   *)

MaxWords == 2

Vocabulary ==
    { <<"i","P","h","o","n","e">>, <<"P","r","o">>, <<"2","5","6","G","B">>,
      <<"s","e","m","i","n","o","v","o">>, <<"u","s","a","d","o">>,
      <<"G","a","l","a","x","y">>, <<"g","a","t","o">>, <<"g","a","m","e","r">>,
      <<"c","u","r","s","o">>, <<"r","o","s","a">>, <<"T","V">>, <<" ">> }

\* a product description of LongPromptLen characters without a keyword
LongPromptLen == 100
P_long == [i \in 1..LongPromptLen |-> "x"]

HarnessSeeds == {P_empty, P_iphone, P_long}

HInit ==
    /\ main_system = "none"
    /\ creds \in CredConfigs(main_system)
    /\ pc = "idle"
    /\ req = NoReq
    /\ analysis = None
    /\ copies = <<>>
    /\ refs = NoRefs
    /\ prompts = <<>>
    /\ images = <<>>
    /\ resp = NoResp
    /\ trace = NoTrace
    /\ hq \in {HarnessInit(p) : p \in HarnessSeeds}
    /\ lg = NoLegacy
    /\ cc = NoConc

pipeline_vars == <<creds, main_system, pc, req, analysis, copies, refs, prompts, images, resp, trace>>

\* one more word is typed after a short prompt
HAppendWord(w) ==
    /\ hq.words < MaxWords
    /\ Len(hq.prompt) < LongPromptLen
    /\ hq' = [HarnessInit(IF hq.prompt = <<>> THEN w ELSE hq.prompt \o <<" ">> \o w)
                EXCEPT !.words = hq.words + 1]
    /\ UNCHANGED <<pipeline_vars, lg, cc>>

\* FreeSearchAISystem._mock_analysis_free(prompt)
HAnalyzeFree ==
    /\ hq.prompt # <<>>
    /\ hq' = [hq EXCEPT !.free = _mock_analysis_free(hq.prompt)]
    /\ UNCHANGED <<pipeline_vars, lg, cc>>

\* AIGeneratorReal._mock_analysis_expanded(prompt)
HAnalyzeReal ==
    /\ hq.prompt # <<>>
    /\ hq' = [hq EXCEPT !.real = _mock_analysis_expanded(hq.prompt)]
    /\ UNCHANGED <<pipeline_vars, lg, cc>>

\* AIFree._smart_local_analysis(prompt)
HAnalyzeLocal ==
    /\ hq.prompt # <<>>
    /\ hq' = [hq EXCEPT !.local = _smart_local_analysis(hq.prompt)]
    /\ UNCHANGED <<pipeline_vars, lg, cc>>

\* the copy stage is applied to prompts of at most this many typed words
MaxCopyWords == 1

\* num_copies values a caller may pass; the handlers pass 3
MaxNumCopies == 4
NumCopies == 0..MaxNumCopies

\* what the provider answers to the second and to the third copy call
LaterCopyReplies == {[status |-> "timeout"], [status |-> "200", body |-> [json |-> "value", len |-> 80]]}

\* _groq_copies_free: one call for each strategy
_groq_copies_free(product_data, num_copies, replies) ==
    LET strategies == _get_copy_strategies(
                          get(product_data, "estrategia_recomendada", "comercial"), num_copies)
    IN  [i \in 1..Len(strategies) |-> groq_copy(product_data, i, strategies[i], replies[i])]

\* FreeSearchAISystem.generate_copies_with_openai(analysis, num_copies) on the
\* analysis of _mock_analysis_free: without a key the mock copies; with a key
\* one provider call for each copy.  The stage is applied where the free
\* analyzer alone has run.
HCopiesFree(reply, reply2, reply3, n) ==
    /\ hq.free # NoResult
    /\ hq.real = NoResult /\ hq.local = NoResult
    /\ hq.words <= MaxCopyWords
    /\ hq' = [hq EXCEPT !.num_copies = n,
                        !.copies_by = IF reply = NoCall THEN "no_key" ELSE "groq",
                        !.copies =
                            IF reply = NoCall THEN _mock_copies_free(hq.free, n)
                            ELSE generate_copies_result(
                                     _groq_copies_free(hq.free, n, <<reply, reply2, reply3>>),
                                     hq.free, n)]
    /\ UNCHANGED <<pipeline_vars, lg, cc>>

HNext ==
    \/ \E w \in Vocabulary : HAppendWord(w)
    \/ HAnalyzeFree
    \/ HAnalyzeReal
    \/ HAnalyzeLocal
    \/ \E reply \in GroqCopyReplies \cup {NoCall}, reply2, reply3 \in LaterCopyReplies, n \in NumCopies :
            HCopiesFree(reply, reply2, reply3, n)

SpecAnalyzer == HInit /\ [][HNext]_vars

----------------------------------------------------------------------------
(* The generators main.py does not load: AIGenerator behind the router of   *)
(* api/routes/ai.py (POST /analyze-prompt, POST /generate-copies),          *)
(* ImageGeneratorClean and FreeImageGenerator.  lg.attempts[i] lists the    *)
(* tiers invoked for item i in the order of their invocation and whether    *)
(* each made the item; lg.resp is the HTTP response of a route, or status   *)
(* 200 with the list a generator returned.                                  *)

\* what the constructors and Settings read: which API keys are set
\* (OPENAI_API_KEY, ANTHROPIC_API_KEY, STABILITY_API_KEY, HUGGINGFACE_TOKEN,
\* REPLICATE_API_TOKEN), which of the keys that are set start with the prefix
\* get_api_status looks for ('sk-', 'sk-ant-', 'r8_'), and whether the
\* replicate library can be imported
LegacyConfigs ==
    {k \in [openai : BOOLEAN, claude : BOOLEAN, stability : BOOLEAN, hf : BOOLEAN,
            replicate : BOOLEAN, replicate_lib : BOOLEAN,
            prefixed : SUBSET {"openai", "claude", "replicate"}] :
        \A p \in k.prefixed : k[p]}

RouterOps == {"analyze-prompt", "generate-copies"}
ImageOps == {"clean_images", "free_images"}

\* num_images values given to the image generators; 3 is the default
LegacyNums == {1, 3}

LegacyInit(k) ==
    [keys |-> k, pc |-> "idle", op |-> "none", n |-> 3, analysis |-> None,
     analysis_attempts |-> <<>>, copies |-> <<>>, images |-> <<>>, attempts |-> <<>>,
     resp |-> NoResp]

\* an analysis as Claude or OpenAI writes it
AGAnalysisObject ==
    [produto_identificado |-> GroqName, marca |-> "Apple", categoria |-> "seminovo",
     publico_alvo_sugerido |-> "fas de tecnologia", tom_de_comunicacao |-> "premium"]

\* outcome of one awaited client call for the analysis: an exception, or a
\* text that json.loads turns into an object, into another JSON value, or
\* rejects
AGAnalysisReplies ==
    {[status |-> "exception"]}
    \cup {[status |-> "ok", text |-> t] : t \in {"json_object", "json_other", "not_json"}}

\* outcome of one awaited client call for a copy
AGCopyReplies == {[status |-> "exception"], [status |-> "ok"]}

_generate_mock_analysis(prompt) ==
    [produto_identificado |-> prompt, marca |-> "Smartphone", categoria |-> "novo",
     publico_alvo_sugerido |-> "Adultos de 25-45 anos interessados em tecnologia",
     tom_de_comunicacao |-> "casual"]

_extract_basic_info(prompt) ==
    [produto_identificado |-> prompt, marca |-> "Nao identificada",
     categoria |-> "nao especificada", publico_alvo_sugerido |-> "Publico geral",
     tom_de_comunicacao |-> "casual"]

\* the provider AIGenerator.analyze_product_prompt calls: Claude when its
\* client exists, else OpenAI
analysis_provider(k) == IF k.claude THEN "claude" ELSE "openai"

\* AIGenerator.analyze_product_prompt; reply is the answer of the one
\* provider that is called
analyze_product_prompt(prompt, k, reply) ==
    IF ~k.claude /\ ~k.openai THEN _generate_mock_analysis(prompt)
    ELSE IF reply.status = "exception" THEN _generate_mock_analysis(prompt)
    ELSE IF reply.text = "not_json" THEN _extract_basic_info(prompt)
    ELSE IF reply.text = "json_other" THEN NotObject
    ELSE AGAnalysisObject

\* the tiers analyze_product_prompt invokes, in order
analysis_tiers(k, reply) ==
    IF ~k.claude /\ ~k.openai THEN <<Made("mock")>>
    ELSE IF reply.status = "exception" THEN <<Failed(analysis_provider(k)), Made("mock")>>
    ELSE IF reply.text = "not_json" THEN <<Failed(analysis_provider(k)), Made("basic")>>
    ELSE <<Made(analysis_provider(k))>>

\* strategy.split(' - ')[0] of the three strategies
variation_strategies == <<"URGENCIA", "BENEFICIOS", "LIFESTYLE">>

\* the provider AIGenerator.generate_copy_variations calls: OpenAI when its
\* client exists, else Claude
copy_provider(k) == IF k.openai THEN "openai" ELSE "claude"

_generate_mock_copy(product_data, copy_id) ==
    [id |-> copy_id,
     copy |-> [by |-> "mock", produto |-> get(product_data, "produto_identificado", JsonNull)],
     strategy |-> "URGENCIA",
     confidence |-> 70]

\* one iteration of the loop of generate_copy_variations: the copy appended
copy_variation(product_data, k, i, reply) ==
    IF reply.status = "ok"
    THEN [id |-> i,
          copy |-> [by |-> copy_provider(k)],
          strategy |-> variation_strategies[i],
          confidence |-> 85 + (i - 1) * 3]
    ELSE _generate_mock_copy(product_data, i)

_generate_mock_copies(product_data, num_variations) ==
    LET n == IF num_variations < 3 THEN num_variations ELSE 3
    IN  [i \in 1..n |->
            [id |-> i,
             copy |-> [by |-> "mock", produto |-> get(product_data, "produto_identificado", JsonNull)],
             strategy |-> <<"URGENCIA", "LIFESTYLE", "LANCAMENTO">>[i],
             confidence |-> 75]]

\* "ai_used" of the response of POST /generate-copies
ai_used(k) ==
    IF k.claude /\ k.openai THEN "claude + openai"
    ELSE IF k.claude THEN "claude"
    ELSE IF k.openai THEN "openai"
    ELSE "mock"

image_styles == <<"Profissional", "Lifestyle", "Premium">>

\* ImageGeneratorClean._create_product_prompts
_create_product_prompts(product_data, num_images) ==
    LET n == IF num_images < 3 THEN num_images ELSE 3
    IN  [i \in 1..n |-> [style |-> image_styles[i]]]

\* ImageGeneratorClean._try_stability: the image, or None
_try_stability(prompt_data, image_id, reply) ==
    IF reply.status = "200" /\ reply.artifacts > 0
    THEN [id |-> image_id, style |-> prompt_data.style,
          generated_by |-> "stability_ai", confidence |-> 95]
    ELSE None

\* ImageGeneratorClean._try_huggingface: the image, or None
_try_huggingface(prompt_data, image_id, reply) ==
    IF reply.status = "200" /\ reply.bytes = "image"
    THEN [id |-> image_id, style |-> prompt_data.style,
          generated_by |-> "huggingface", confidence |-> 88]
    ELSE None

\* ImageGeneratorClean._create_smart_mock
_create_smart_mock(product_data, prompt_data, image_id) ==
    [id |-> image_id, style |-> prompt_data.style,
     generated_by |-> "smart_mock", confidence |-> 75]

\* FreeImageGenerator.__init__: the one strategy used for every image
strategy_of(k) ==
    IF k.stability THEN "stability"
    ELSE IF k.hf THEN "huggingface"
    ELSE IF k.replicate THEN "replicate"
    ELSE "mock"

\* outcome of replicate.run: an exception, or a list of so many urls
ReplicateReplies == {[status |-> "exception"]} \cup {[status |-> "200", output |-> n] : n \in {0, 1}}

\* FreeImageGenerator._create_fallback_image
_create_fallback_image(product_data, image_id) ==
    [id |-> image_id, style |-> <<"Fallback 1", "Fallback 2", "Fallback 3">>[image_id],
     generated_by |-> "fallback", confidence |-> 30]

\* one iteration of the loop of FreeImageGenerator._generate_with_stability,
\* _generate_with_huggingface or _generate_with_replicate: the image appended
free_image(product_data, strategy, i, reply) ==
    IF strategy = "stability" /\ reply.status = "200" /\ reply.artifacts > 0
    THEN [id |-> i, style |-> image_styles[i], generated_by |-> "stability_ai", confidence |-> 92]
    ELSE IF strategy = "huggingface" /\ reply.status = "200"
    THEN [id |-> i, style |-> image_styles[i], generated_by |-> "huggingface_free", confidence |-> 88]
    ELSE IF strategy = "replicate" /\ reply.status = "200" /\ reply.output > 0
    THEN [id |-> i, style |-> image_styles[i], generated_by |-> "replicate", confidence |-> 90]
    ELSE _create_fallback_image(product_data, i)

\* FreeImageGenerator._generate_mock_images
_generate_mock_images(product_data, num_images) ==
    LET n == IF num_images < 3 THEN num_images ELSE 3
    IN  [i \in 1..n |->
            [id |-> i, style |-> image_styles[i],
             generated_by |-> "enhanced_mock", confidence |-> 75]]

\* Settings.get_api_status
get_api_status(k) ==
    [openai |-> [configured |-> k.openai /\ "openai" \in k.prefixed,
                 status |-> IF k.openai THEN "active" ELSE "inactive"],
     anthropic |-> [configured |-> k.claude /\ "claude" \in k.prefixed,
                    status |-> IF k.claude THEN "active" ELSE "inactive"],
     replicate |-> [configured |-> k.replicate /\ "replicate" \in k.prefixed,
                    status |-> IF k.replicate THEN "active" ELSE "inactive"]]

check_api_keys(k) ==
    [openai |-> get_api_status(k).openai.configured,
     anthropic |-> get_api_status(k).anthropic.configured,
     replicate |-> get_api_status(k).replicate.configured]

\* the keys system_status reads from the result of check_api_keys
status_keys_read == {"openai", "anthropic", "meta"}

\* GET /status of the system router: a key that check_api_keys does not
\* return raises KeyError, which the route does not catch
system_status(k) ==
    LET api_status == check_api_keys(k)
    IN  IF status_keys_read \subseteq DOMAIN api_status
        THEN [status |-> 200,
              system |-> "online",
              integrations |-> [openai_configured |-> get(api_status, "openai", FALSE),
                                anthropic_configured |-> get(api_status, "anthropic", FALSE),
                                meta_configured |-> get(api_status, "meta", FALSE)]]
        ELSE ErrorResponse(500)

\* GET /status of the system router is requested and answered
SystemStatus ==
    /\ lg.pc \in {"idle", "done"}
    /\ lg' = [LegacyInit(lg.keys) EXCEPT
                !.op = "status",
                !.pc = "done",
                !.resp = system_status(lg.keys)]
    /\ UNCHANGED <<pipeline_vars, hq, cc>>

\* a route is requested, or a generator is called with an analysis
LReceive(op, n) ==
    /\ lg.pc \in {"idle", "done"}
    /\ op \in RouterOps => n = 3
    /\ lg' = [LegacyInit(lg.keys) EXCEPT
                !.op = op,
                !.n = n,
                !.pc = IF op \in RouterOps THEN "analyze" ELSE "image",
                !.analysis = IF op \in RouterOps THEN None ELSE AGAnalysisObject]
    /\ UNCHANGED <<pipeline_vars, hq, cc>>

\* the route returns
LRespond(body) == [status |-> 200, success |-> TRUE] @@ body

\* analysis = await ai_generator.analyze_product_prompt(request.prompt)
AGAnalyze(reply) ==
    /\ lg.pc = "analyze"
    /\ reply \in (IF lg.keys.claude \/ lg.keys.openai THEN AGAnalysisReplies ELSE {NoCall})
    /\ LET a == analyze_product_prompt(P_iphone, lg.keys, reply)
       IN  lg' = [lg EXCEPT
                    !.analysis = a,
                    !.analysis_attempts = analysis_tiers(lg.keys, reply),
                    !.pc = IF lg.op = "analyze-prompt" THEN "done" ELSE "copy",
                    !.resp = IF lg.op = "analyze-prompt"
                             THEN LRespond([analysis |-> a,
                                            ai_used |-> IF lg.keys.claude THEN "claude"
                                                        ELSE IF lg.keys.openai THEN "openai"
                                                        ELSE "mock"])
                             ELSE @]
    /\ UNCHANGED <<pipeline_vars, hq, cc>>

\* generate_copy_variations without a client: the mock copies
AGCopyMock ==
    /\ lg.pc = "copy"
    /\ ~lg.keys.openai /\ ~lg.keys.claude
    /\ LET list == _generate_mock_copies(lg.analysis, 3)
       IN  lg' = [lg EXCEPT
                    !.copies = list,
                    !.attempts = [i \in 1..Len(list) |-> <<Made("mock")>>],
                    !.pc = "done",
                    !.resp = LRespond([product_analysis |-> lg.analysis, copies |-> list,
                                       ai_used |-> ai_used(lg.keys)])]
    /\ UNCHANGED <<pipeline_vars, hq, cc>>

\* the analysis is not an object: product_data.get raises while the copy
\* prompt is built, outside the try, and the route answers 500
AGCopyRaises ==
    /\ lg.pc = "copy"
    /\ lg.keys.openai \/ lg.keys.claude
    /\ ~IsObject(lg.analysis)
    /\ lg' = [lg EXCEPT !.pc = "done", !.resp = ErrorResponse(500)]
    /\ UNCHANGED <<pipeline_vars, hq, cc>>

\* one iteration of the loop of generate_copy_variations
AGCopyCall(reply) ==
    /\ lg.pc = "copy"
    /\ lg.keys.openai \/ lg.keys.claude
    /\ IsObject(lg.analysis)
    /\ reply \in AGCopyReplies
    /\ LET i == Len(lg.copies) + 1
           list == Append(lg.copies, copy_variation(lg.analysis, lg.keys, i, reply))
           tiers == IF reply.status = "ok" THEN <<Made(copy_provider(lg.keys))>>
                    ELSE <<Failed(copy_provider(lg.keys)), Made("mock")>>
       IN  lg' = [lg EXCEPT
                    !.copies = list,
                    !.attempts = Append(@, tiers),
                    !.pc = IF i = 3 THEN "done" ELSE "copy",
                    !.resp = IF i = 3
                             THEN LRespond([product_analysis |-> lg.analysis, copies |-> list,
                                            ai_used |-> ai_used(lg.keys)])
                             ELSE @]
    /\ UNCHANGED <<pipeline_vars, hq, cc>>

\* images.append(image) and the end of the loop over the prompts
legacy_image_done(image, tiers) ==
    LET list == Append(lg.images, image)
        history == IF lg.pc = "image_hf" THEN lg.attempts[Len(list)] ELSE <<>>
        done == Len(list) = Len(_create_product_prompts(lg.analysis, lg.n))
    IN  lg' = [lg EXCEPT
                 !.images = list,
                 !.attempts = SubSeq(@, 1, Len(list) - 1) \o <<history \o tiers>>,
                 !.pc = IF done THEN "done" ELSE "image",
                 !.resp = IF done THEN [status |-> 200, images |-> list] ELSE @]

\* ImageGeneratorClean.generate_product_images, first attempt: Stability AI
CleanStability(reply) ==
    /\ lg.pc = "image" /\ lg.op = "clean_images"
    /\ lg.keys.stability
    /\ reply \in StabilityReplies
    /\ LET i == Len(lg.images) + 1
           prompt_data == _create_product_prompts(lg.analysis, lg.n)[i]
           image == _try_stability(prompt_data, i, reply)
       IN  IF ~IsNone(image) THEN legacy_image_done(image, <<Made("stability")>>)
           ELSE IF lg.keys.hf
           THEN lg' = [lg EXCEPT !.pc = "image_hf", !.attempts = Append(@, <<Failed("stability")>>)]
           ELSE legacy_image_done(_create_smart_mock(lg.analysis, prompt_data, i),
                                  <<Failed("stability"), Made("mock")>>)
    /\ UNCHANGED <<pipeline_vars, hq, cc>>

\* second attempt: HuggingFace
CleanHuggingFace(reply) ==
    /\ lg.op = "clean_images"
    /\ lg.keys.hf
    /\ \/ lg.pc = "image_hf"
       \/ lg.pc = "image" /\ ~lg.keys.stability
    /\ reply \in HFReplies
    /\ LET i == Len(lg.images) + 1
           prompt_data == _create_product_prompts(lg.analysis, lg.n)[i]
           image == _try_huggingface(prompt_data, i, reply)
       IN  IF ~IsNone(image) THEN legacy_image_done(image, <<Made("huggingface")>>)
           ELSE legacy_image_done(_create_smart_mock(lg.analysis, prompt_data, i),
                                  <<Failed("huggingface"), Made("mock")>>)
    /\ UNCHANGED <<pipeline_vars, hq, cc>>

\* no image provider is configured: the smart mock
CleanMock ==
    /\ lg.pc = "image" /\ lg.op = "clean_images"
    /\ ~lg.keys.stability /\ ~lg.keys.hf
    /\ LET i == Len(lg.images) + 1
           prompt_data == _create_product_prompts(lg.analysis, lg.n)[i]
       IN  legacy_image_done(_create_smart_mock(lg.analysis, prompt_data, i), <<Made("mock")>>)
    /\ UNCHANGED <<pipeline_vars, hq, cc>>

\* FreeImageGenerator.generate_product_images: one iteration of the loop of
\* the generator of the strategy chosen at construction
FreeImageCall(reply) ==
    /\ lg.pc = "image" /\ lg.op = "free_images"
    /\ strategy_of(lg.keys) # "mock"
    /\ strategy_of(lg.keys) = "replicate" => lg.keys.replicate_lib
    /\ reply \in (IF strategy_of(lg.keys) = "stability" THEN StabilityReplies
                  ELSE IF strategy_of(lg.keys) = "huggingface" THEN HFReplies
                  ELSE ReplicateReplies)
    /\ LET i == Len(lg.images) + 1
           image == free_image(lg.analysis, strategy_of(lg.keys), i, reply)
       IN  legacy_image_done(image, IF image.generated_by = "fallback"
                                    THEN <<Failed(strategy_of(lg.keys)), Made("mock")>>
                                    ELSE <<Made(strategy_of(lg.keys))>>)
    /\ UNCHANGED <<pipeline_vars, hq, cc>>

\* FreeImageGenerator.generate_product_images with the strategy "mock", or
\* with the strategy "replicate" when the library cannot be imported
FreeImageMock ==
    /\ lg.pc = "image" /\ lg.op = "free_images"
    /\ \/ strategy_of(lg.keys) = "mock"
       \/ strategy_of(lg.keys) = "replicate" /\ ~lg.keys.replicate_lib
    /\ LET list == _generate_mock_images(lg.analysis, lg.n)
           tiers == IF strategy_of(lg.keys) = "replicate"
                    THEN <<Failed("replicate"), Made("mock")>>
                    ELSE <<Made("mock")>>
       IN  lg' = [lg EXCEPT
                    !.images = list,
                    !.attempts = [i \in 1..Len(list) |-> tiers],
                    !.pc = "done",
                    !.resp = [status |-> 200, images |-> list]]
    /\ UNCHANGED <<pipeline_vars, hq, cc>>

LInit ==
    /\ main_system = "none"
    /\ creds \in CredConfigs(main_system)
    /\ pc = "idle"
    /\ req = NoReq
    /\ analysis = None
    /\ copies = <<>>
    /\ refs = NoRefs
    /\ prompts = <<>>
    /\ images = <<>>
    /\ resp = NoResp
    /\ trace = NoTrace
    /\ hq = HarnessInit(<<>>)
    /\ lg \in {LegacyInit(k) : k \in LegacyConfigs}
    /\ cc = NoConc

LNext ==
    \/ \E op \in RouterOps \cup ImageOps : \E n \in LegacyNums : LReceive(op, n)
    \/ \E reply \in AGAnalysisReplies \cup {NoCall} : AGAnalyze(reply)
    \/ AGCopyMock
    \/ AGCopyRaises
    \/ \E reply \in AGCopyReplies : AGCopyCall(reply)
    \/ \E reply \in StabilityReplies : CleanStability(reply)
    \/ \E reply \in HFReplies : CleanHuggingFace(reply)
    \/ CleanMock
    \/ \E reply \in StabilityReplies \cup HFReplies \cup ReplicateReplies : FreeImageCall(reply)
    \/ FreeImageMock
    \/ SystemStatus

SpecLegacy == LInit /\ [][LNext]_vars

----------------------------------------------------------------------------
(* debug_system.py: the three calls of the smoke test on AIGeneratorReal.   *)
(* pc is the position of the test; "smoke_failed" is its except branch.     *)

\* a provider analysis with the four fields _groq_analysis_expanded asks for
\* and no price
GroqAnalysisWithoutPrice ==
    [produto_identificado |-> GroqName, tipo_produto |-> "smartphone", marca |-> "Apple",
     categoria |-> "novo"]

SmokeAnalysisReplies ==
    GroqAnalysisReplies
    \cup {[status |-> "200", body |-> [json |-> "value", value |-> GroqAnalysisWithoutPrice]]}

\* the keys of the analysis the test prints
smoke_analysis_keys == {"produto_identificado", "marca", "preco_estimado"}

\* num_copies given to generate_copies_with_openai
SmokeCopyNums == 1..3

SmokeInit ==
    /\ main_system = "real"
    /\ creds \in CredConfigs(main_system)
    /\ pc = "smoke_analysis"
    /\ req = NoReq
    /\ analysis = None
    /\ copies = <<>>
    /\ refs = NoRefs
    /\ prompts = <<>>
    /\ images = <<>>
    /\ resp = NoResp
    /\ trace = NoTrace
    /\ hq = HarnessInit(<<>>)
    /\ lg = NoLegacy
    /\ cc = NoConc

\* analysis = await ai_generator_real.analyze_with_openai(...), and the
\* three keys printed
SmokeAnalyze(reply) ==
    /\ pc = "smoke_analysis"
    /\ reply \in (IF creds.groq THEN SmokeAnalysisReplies ELSE {NoCall})
    /\ IF expanded_analysis_raises(creds.groq, reply)
       THEN /\ pc' = "smoke_failed"
            /\ UNCHANGED analysis
       ELSE /\ analysis' = analyze_with_openai_expanded(P_iphone, creds.groq, reply)
            /\ pc' = IF smoke_analysis_keys \subseteq DOMAIN analysis'
                     THEN "smoke_copies" ELSE "smoke_failed"
    /\ UNCHANGED <<creds, main_system, req, copies, refs, prompts, images, resp, trace, hq, lg, cc>>

\* copies = await ai_generator_real.generate_copies_with_openai(analysis, n),
\* and the two keys printed for each copy; replies are the answers to the
\* calls of the loop of _groq_copies_with_strategies
SmokeCopies(n, replies) ==
    /\ pc = "smoke_copies"
    /\ replies \in (IF creds.groq THEN [1..n -> GroqCopyReplies] ELSE {<<>>})
    /\ LET strategies == strategies_of(analysis, n)
           list == [i \in 1..Len(strategies) |->
                       groq_copy_strategic(analysis, i, strategies[i], replies[i])]
       IN  copies' = IF creds.groq
                     THEN generate_copies_result_strategic(list, analysis, n)
                     ELSE _mock_copies_with_strategies(analysis, n)
    /\ req' = [endpoint |-> "smoke", num_copies |-> n]
    /\ pc' = IF \A i \in 1..Len(copies') : {"estrategia", "texto"} \subseteq DOMAIN copies'[i]
             THEN "smoke_images" ELSE "smoke_failed"
    /\ UNCHANGED <<creds, main_system, analysis, refs, prompts, images, resp, trace, hq, lg, cc>>

\* images = await ai_generator_real.generate_images_with_replicate(analysis, 1):
\* the second argument is the list of copies, so the number 1 stands where
\* the copies are expected and num_images is 3; reading the copies raises
\* TypeError inside the try, and _mock_images(product_data, 3) is returned
SmokeImages ==
    /\ pc = "smoke_images"
    /\ images' = _mock_images(analysis, 3)
    /\ pc' = IF \A i \in 1..Len(images') : "style" \in DOMAIN images'[i]
             THEN "smoke_done" ELSE "smoke_failed"
    /\ UNCHANGED <<creds, main_system, req, analysis, copies, refs, prompts, resp, trace, hq, lg, cc>>

SmokeNext ==
    \/ \E reply \in SmokeAnalysisReplies \cup {NoCall} : SmokeAnalyze(reply)
    \/ \E n \in SmokeCopyNums : \E replies \in [1..n -> GroqCopyReplies] \cup {<<>>} : SmokeCopies(n, replies)
    \/ SmokeImages

SpecSmoke == SmokeInit /\ [][SmokeNext]_vars

----------------------------------------------------------------------------
(* Two requests on one event loop.  The handlers are coroutines over the    *)
(* same singletons: the pipeline variables hold the locals of the request   *)
(* that is running, cc.saved those of the suspended one, and the event loop *)
(* resumes the other request where the running one awaits.  cc.script[t]    *)
(* is what the providers answer to request t.                               *)

P_galaxy == <<"G","a","l","a","x","y"," ","u","s","a","d","o">>

\* the two requests
ConcRequests ==
    { << [endpoint |-> "generate-free", prompt |-> P_iphone, image_count |-> 3], r2 >> :
         r2 \in {[endpoint |-> "generate", prompt |-> P_galaxy, image_count |-> 3],
                 [endpoint |-> "generate-free", prompt |-> P_blank, image_count |-> 3]} }

\* what the providers answer to one request: the analysis reply, and for the
\* other calls which of the replies it is
Scripts ==
    { [analysis |-> [status |-> "200", body |-> [json |-> "value", value |-> GroqAnalysisObject(GroqName)]],
       copy |-> "odd", strategy |-> [status |-> "200", body |-> "strategies"],
       refs |-> "most", prompts |-> "longest", image |-> "odd"],
      [analysis |-> [status |-> "timeout"],
       copy |-> "none", strategy |-> [status |-> "http_error"],
       refs |-> "fewest", prompts |-> "failed", image |-> "none"],
      [analysis |-> [status |-> "200", body |-> [json |-> "value", value |-> NotObject]],
       copy |-> "odd", strategy |-> [status |-> "200", body |-> "strategies"],
       refs |-> "most", prompts |-> "lifestyle", image |-> "odd"],
      [analysis |-> [status |-> "timeout"],
       copy |-> "odd", strategy |-> [status |-> "200", body |-> "unparseable"],
       refs |-> "most", prompts |-> "lifestyle", image |-> "none"] }

\* the locals of a coroutine
Locals(pc_, req_, analysis_, copies_, refs_, prompts_, images_, resp_, trace_) ==
    [pc |-> pc_, req |-> req_, analysis |-> analysis_, copies |-> copies_, refs |-> refs_,
     prompts |-> prompts_, images |-> images_, resp |-> resp_, trace |-> trace_]

NotStarted == Locals("idle", NoReq, None, <<>>, NoRefs, <<>>, <<>>, NoResp, NoTrace)

CInit ==
    /\ main_system = "free"
    /\ creds \in {c \in CredConfigs("free") :
                    /\ c.groq = c.hf /\ c.pexels = c.groq /\ c.unsplash = c.groq /\ c.pixabay = c.groq
                    /\ ~c.stability}
    /\ pc = "idle"
    /\ req = NoReq
    /\ analysis = None
    /\ copies = <<>>
    /\ refs = NoRefs
    /\ prompts = <<>>
    /\ images = <<>>
    /\ resp = NoResp
    /\ trace = NoTrace
    /\ hq = HarnessInit(<<>>)
    /\ lg = NoLegacy
    /\ cc \in [running : {1}, saved : {NotStarted}, overlap : {FALSE},
               reqs : ConcRequests, script : [1..2 -> Scripts]]

\* the reply of the copy call for copy i, and of the image call for image i
copy_reply(kind, i) ==
    IF kind = "odd" /\ i % 2 = 1 THEN [status |-> "200", body |-> [json |-> "value", len |-> 80]]
    ELSE [status |-> "timeout"]
image_reply(kind, i) ==
    IF kind = "odd" /\ i % 2 = 1 THEN [status |-> "200", bytes |-> "image"]
    ELSE [status |-> "timeout"]

\* the reply of the prompt-writing call
prompt_reply(kind, copies_) ==
    IF kind = "failed" THEN [status |-> "timeout"]
    ELSE [status |-> "200",
          body |-> [json |-> "value",
                    prompts |-> IF kind = "longest"
                                THEN CHOOSE l \in GroqPromptLists(copies_, 3) : Len(l) = 3 + MaxExtraPrompts
                                ELSE CHOOSE l \in GroqPromptLists(copies_, 3) :
                                         Len(l) = 3 /\ \A i \in 1..3 : get(l[i], "strategy", "None") = "LIFESTYLE"]]

\* the references the search APIs lead to
found_refs(kind, analysis_, c, reply) ==
    LET results == search_results(analysis_, c, reply)
    IN  IF kind = "most" THEN CHOOSE f \in results : \A g \in results : g.count <= f.count
        ELSE CHOOSE f \in results : \A g \in results : f.count <= g.count

\* generate_free_campaign run from its first line to its last with the
\* provider answers of script s: the status of the response and, for a 200,
\* its analysis, copies, images and campaign
RunAlone(r, s, c) ==
    LET a == analyze_with_openai(prompt_of(r), c.groq, IF c.groq THEN s.analysis ELSE NoCall)
        strategies == _get_copy_strategies(get(a, "estrategia_recomendada", "comercial"), 3)
        cps == IF ~c.groq THEN _mock_copies_free(a, 3)
               ELSE generate_copies_result(
                        [i \in 1..3 |-> groq_copy(a, i, strategies[i], copy_reply(s.copy, i))], a, 3)
        found == found_refs(s.refs, a, c, IF c.groq THEN s.strategy ELSE NoCall)
        ps == IF c.groq THEN _create_prompts_with_groq(cps, 3, prompt_reply(s.prompts, cps))
              ELSE _create_smart_prompts_free(cps, 3)
        hf(i) == IF c.hf
                 THEN _generate_with_huggingface_free(ps[i], found, i,
                          IF IsObject(ps[i]) THEN image_reply(s.image, i) ELSE NoCall)
                 ELSE None
        imgs == [i \in 1..Len(ps) |->
                    IF IsNone(hf(i)) THEN _create_reference_based_mock(a, ps[i], found, i) ELSE hf(i)]
        failed(status) == [status |-> raised(r, status)]
    IN  IF rejection(r) # 0 THEN failed(rejection(r))
        ELSE IF c.groq /\ ~IsObject(a) THEN failed(500)
        ELSE IF \E i \in 1..Len(ps) : IsNone(hf(i)) /\ reference_mock_raises(a, ps[i]) THEN failed(500)
        ELSE IF create_campaign_raises(a) THEN failed(500)
        ELSE [status |-> 200, analysis |-> a, copies |-> cps, images |-> imgs,
              campaign |-> create_free_campaign(a, cps, imgs)]

\* what a finished request answered
Answered(l) ==
    IF l.resp.status = 200
    THEN [status |-> 200, analysis |-> l.resp.analise_produto, copies |-> l.resp.copies_geradas,
          images |-> l.resp.imagens_geradas, campaign |-> l.resp.campanha_completa]
    ELSE [status |-> l.resp.status]

RunningLocals == Locals(pc, req, analysis, copies, refs, prompts, images, resp, trace)

InProgress(l) == l.pc \notin {"idle", "done"}

\* an event loop whose singleton keeps the analysis in a field of its own,
\* which the resumed request then reads
SwitchSharingAnalysis ==
    /\ cc.running # 0
    /\ pc' = cc.saved.pc
    /\ req' = cc.saved.req
    /\ analysis' = (IF InProgress(cc.saved) /\ pc # "idle" THEN analysis ELSE cc.saved.analysis)
    /\ copies' = cc.saved.copies
    /\ refs' = cc.saved.refs
    /\ prompts' = cc.saved.prompts
    /\ images' = cc.saved.images
    /\ resp' = cc.saved.resp
    /\ trace' = cc.saved.trace
    /\ cc' = [cc EXCEPT !.running = 3 - @,
                        !.saved = RunningLocals,
                        !.overlap = @ \/ (InProgress(RunningLocals) /\ InProgress(cc.saved))]
    /\ UNCHANGED <<creds, main_system, hq, lg>>

\* the running request awaits (or has returned) and the event loop resumes
\* the other one with its own locals
Switch ==
    /\ cc.running # 0
    /\ pc' = cc.saved.pc
    /\ req' = cc.saved.req
    /\ analysis' = cc.saved.analysis
    /\ copies' = cc.saved.copies
    /\ refs' = cc.saved.refs
    /\ prompts' = cc.saved.prompts
    /\ images' = cc.saved.images
    /\ resp' = cc.saved.resp
    /\ trace' = cc.saved.trace
    /\ cc' = [cc EXCEPT !.running = 3 - @,
                        !.saved = RunningLocals,
                        !.overlap = @ \/ (InProgress(RunningLocals) /\ InProgress(cc.saved))]
    /\ UNCHANGED <<creds, main_system, hq, lg>>

\* the script of the running request
script == cc.script[cc.running]

CNext ==
    \/ pc = "idle" /\ Receive(cc.reqs[cc.running])
    \/ Analyze(IF creds.groq THEN script.analysis ELSE NoCall)
    \/ CopyMock
    \/ CopyRaises
    \/ CopyGroq(copy_reply(script.copy, Len(copies) + 1))
    \/ Search(IF creds.groq THEN script.strategy ELSE NoCall,
              found_refs(script.refs, analysis, creds, IF creds.groq THEN script.strategy ELSE NoCall))
    \/ ImagePrompts(IF creds.groq THEN prompt_reply(script.prompts, copies) ELSE NoCall)
    \/ Image(IF creds.hf /\ IsObject(prompts[Len(images) + 1])
             THEN image_reply(script.image, Len(images) + 1) ELSE NoCall)
    \/ Compose
    \/ Switch

SpecConcurrent == CInit /\ [][CNext]_vars

----------------------------------------------------------------------------
(* Properties                                                               *)

NoCredential ==
    /\ ~creds.groq /\ ~creds.hf /\ ~creds.stability
    /\ ~creds.pexels /\ ~creds.unsplash /\ ~creds.pixabay

\* provenance tags of the per-item fallbacks and of the mocks
FallbackTags ==
    {"mock_fallback", "groq_fallback", "free_reference_mock", "strategic_mock", "intelligent_mock"}

\* the request was accepted by a loaded system that serves its endpoint
served == main_system = "free" \/ (main_system = "real" /\ req.endpoint = "generate")

\* the ids of a list are 1, 2, ..., k in this order
ids_contiguous(list) == \A i \in 1..Len(list) : list[i].id = i

\* C1: with no credential configured, every request with a non-empty prompt
\* is answered with success=true, 3 copies and 3 images, all of them tagged
\* as fallback, and the statistics report no real copy and no real image.
C1_FallbackCompleteness ==
    (pc = "done" /\ main_system = "free" /\ NoCredential /\ prompt_of(req) # <<>>) =>
        /\ resp.status = 200
        /\ resp.success
        /\ Len(resp.copies_geradas) = 3
        /\ Len(resp.imagens_geradas) = 3
        /\ \A i \in 1..3 : resp.copies_geradas[i].generated_by \in FallbackTags
        /\ \A i \in 1..3 : resp.imagens_geradas[i].generated_by \in FallbackTags
        /\ resp.generation_stats.real_copies = 0
        /\ resp.generation_stats.real_images = 0

\* C2: whatever the providers answer, a request with a non-empty prompt
\* (whitespace-only included) ends with a success response, never a 5xx.
C2_NeverFails ==
    (pc = "done" /\ served /\ prompt_of(req) # <<>>) =>
        (resp.status = 200 /\ resp.success)

\* C3: on both generation endpoints, whichever system is loaded, a request
\* with an empty or missing prompt gets a 4xx response and runs no stage and
\* no provider call.
C3_EmptyPromptRejected ==
    (pc = "done" /\ prompt_of(req) = <<>>) =>
        /\ resp.status >= 400 /\ resp.status <= 499
        /\ trace.stages = <<>>
        /\ trace.groq_calls = 0 /\ trace.hf_calls = 0 /\ trace.stability_calls = 0

\* C4: a response holds exactly image_count images, with ids 1..image_count.
C4_ImageCount ==
    (pc = "done" /\ resp.status = 200) =>
        /\ Len(resp.imagens_geradas) = req.image_count
        /\ ids_contiguous(resp.imagens_geradas)

\* C5: the copies and the images, in the handler and in every response, are
\* ordered by id with ids exactly 1..k.
C5_IdsContiguous ==
    /\ ids_contiguous(copies)
    /\ ids_contiguous(images)
    /\ resp.status = 200 =>
        /\ ids_contiguous(resp.copies_geradas)
        /\ ids_contiguous(resp.imagens_geradas)

\* a response whose copies and images mix provider items and fallbacks
C5_Witness ==
    /\ resp.status = 200
    /\ \E i, j \in 1..Len(resp.copies_geradas) :
          /\ resp.copies_geradas[i].generated_by = "groq_real"
          /\ resp.copies_geradas[j].generated_by = "groq_fallback"
    /\ \E i, j \in 1..Len(resp.imagens_geradas) :
          /\ resp.imagens_geradas[i].generated_by = "huggingface_free"
          /\ resp.imagens_geradas[j].generated_by = "free_reference_mock"

\* the analysis was written by the provider with a usable product name, and
\* every copy call of the request failed
copies_failed_after_analysis ==
    /\ pc = "done"
    /\ trace.analysis_by = "groq"
    /\ IsObject(analysis)
    /\ IsText(analysis.produto_identificado)
    /\ split(analysis.produto_identificado) # <<>>
    /\ trace.groq_calls >= 4
    /\ trace.copy_ok = 0

\* C6: when the provider wrote the analysis and every copy call then failed,
\* the response holds exactly 3 copies, all tagged as fallback, their text
\* built from the product name of the provider's analysis, and the
\* provider's analysis as it is.
C6_PartialDegradation ==
    copies_failed_after_analysis =>
        /\ resp.status = 200
        /\ Len(resp.copies_geradas) = 3
        /\ \A i \in 1..3 :
              /\ resp.copies_geradas[i].generated_by \in FallbackTags
              /\ resp.copies_geradas[i].texto.produto = analysis.produto_identificado
        /\ resp.analise_produto = analysis
        /\ \E b \in GroqAnalysisBodies : b.json = "value" /\ analysis = b.value

\* C7: with no credential, "iPhone 15 Pro Max 256GB seminovo" is analysed as
\* brand Apple, condition seminovo/usado, and answered with 3 copies and the
\* requested number of images, all tagged fallback.
C7_IPhoneScenario ==
    (pc = "done" /\ served /\ NoCredential /\ prompt_of(req) = P_iphone) =>
        /\ resp.status = 200
        /\ get(resp.analise_produto, "marca", "None") = "Apple"
        /\ get(resp.analise_produto, "categoria", "None") \in {"seminovo", "usado"}
        /\ Len(resp.copies_geradas) = 3
        /\ Len(resp.imagens_geradas) = req.image_count
        /\ \A i \in 1..Len(resp.copies_geradas) : resp.copies_geradas[i].generated_by \in FallbackTags
        /\ \A i \in 1..Len(resp.imagens_geradas) : resp.imagens_geradas[i].generated_by \in FallbackTags

\* an analysis with a brand, a product type and an ordered price range
valid_analysis(a) ==
    /\ "marca" \in DOMAIN a /\ a.marca # ""
    /\ "tipo_produto" \in DOMAIN a /\ a.tipo_produto # ""
    /\ "preco_estimado" \in DOMAIN a /\ a.preco_estimado[1] <= a.preco_estimado[2]

\* C8: every keyword analyzer returns, for every non-empty prompt, an
\* analysis with a non-empty brand, a non-empty product type and a price
\* range with low <= high.
C8_AnalyzerTotal ==
    /\ hq.free # NoResult => valid_analysis(hq.free)
    /\ hq.real # NoResult => valid_analysis(hq.real)
    /\ hq.local # NoResult => valid_analysis(hq.local)

\* 200 answers to the analysis call whose body is malformed or partial
MalformedAnalysisReplies ==
    {r \in GroqAnalysisReplies :
        /\ r.status = "200"
        /\ \/ r.body.json = "unparseable"
           \/ r.body.value = NotObject
           \/ ~(required_fields \subseteq DOMAIN r.body.value)
           \/ ~truthy(r.body.value.produto_identificado)}

\* 200 answers to the prompt call whose body is malformed or partial
MalformedPromptReplies ==
    {r \in GroqPromptReplies(copies, 3) :
        /\ r.status = "200"
        /\ \/ r.body.json # "value"
           \/ \E i \in 1..Len(r.body.prompts) : ~IsObject(r.body.prompts[i])}

\* C10: a stage that gets a 200 answer with a malformed or partial body
\* uses its fallback output, as for a provider failure.
C10_MalformedIsFailure ==
    [][ /\ \A r \in MalformedAnalysisReplies :
              Analyze(r) => analysis' = _mock_analysis_free(prompt_of(req))
        /\ \A r \in MalformedPromptReplies :
              ImagePrompts(r) => prompts' = _create_smart_prompts_free(copies, 3)
      ]_vars

\* the image with this history of tiers was made by a provider
provider_made(history) == history # <<>> /\ history[Len(history)].tier # "mock"

\* C11: in the generation_stats of every success response, real_analysis is
\* true exactly when the analysis provider wrote the returned analysis, and
\* real_copies and real_images are the numbers of returned copies and images
\* that a provider wrote.
C11_StatsTruthful ==
    (pc = "done" /\ resp.status = 200 /\ "generation_stats" \in DOMAIN resp) =>
        /\ resp.generation_stats.real_analysis = (trace.analysis_by = "groq")
        /\ resp.generation_stats.real_copies =
               Cardinality({i \in 1..Len(resp.copies_geradas) :
                               resp.copies_geradas[i].texto.by = "groq"})
        /\ resp.generation_stats.real_images =
               Cardinality({i \in 1..Len(resp.imagens_geradas) :
                               provider_made(trace.attempts[i])})

\* the tier a provenance tag names
tag_tier(tag) ==
    IF tag = "groq_real" THEN "groq"
    ELSE IF tag \in {"stability_ai_with_groq", "stability_ai"} THEN "stability"
    ELSE IF tag \in {"huggingface_free", "huggingface_with_groq", "huggingface"} THEN "huggingface"
    ELSE IF tag = "replicate" THEN "replicate"
    ELSE IF tag \in FallbackTags \cup {"smart_mock", "fallback", "enhanced_mock"} THEN "mock"
    ELSE "unknown"

\* the tier that wrote the text of a copy
text_tier(text) == IF text.by \in {"template", "mock"} THEN "mock" ELSE text.by

\* every item of the list has a tag, and the tag names the tier that made it
tags_name_tiers(list, made_by(_)) ==
    \A i \in 1..Len(list) :
        /\ "generated_by" \in DOMAIN list[i]
        /\ list[i].generated_by # ""
        /\ tag_tier(list[i].generated_by) = made_by(i)

\* C12: every copy and every image of a success response, of the generation
\* handlers and of the copy route of the AI router alike, has a non-empty
\* generated_by that names the tier (provider or fallback/mock) that made it.
C12_ProvenanceTags ==
    /\ (pc = "done" /\ resp.status = 200) =>
          /\ LET made_by(i) == text_tier(resp.copies_geradas[i].texto)
             IN  tags_name_tiers(resp.copies_geradas, made_by)
          /\ LET made_by(i) == trace.attempts[i][Len(trace.attempts[i])].tier
             IN  tags_name_tiers(resp.imagens_geradas, made_by)
    /\ (lg.pc = "done" /\ lg.resp.status = 200) =>
          /\ LET made_by(i) == text_tier(lg.resp.copies[i].copy)
             IN  tags_name_tiers(get(lg.resp, "copies", <<>>), made_by)
          /\ LET made_by(i) == lg.attempts[i][Len(lg.attempts[i])].tier
             IN  tags_name_tiers(get(lg.resp, "images", <<>>), made_by)

\* C13: the status route answers 200 for every combination of keys, and
\* reports each provider as configured exactly when its key is set.
C13_StatusQuery ==
    (lg.pc = "done" /\ lg.op = "status") =>
        /\ lg.resp.status = 200
        /\ lg.resp.integrations.openai_configured = lg.keys.openai
        /\ lg.resp.integrations.anthropic_configured = lg.keys.claude

\* C14: the smoke test never reaches its except branch: the analysis has the
\* keys produto_identificado, marca and preco_estimado whichever tier wrote
\* it, the copies are exactly as many as asked and have estrategia and texto,
\* and every image has a style.
C14_SmokeTest ==
    /\ pc # "smoke_failed"
    /\ pc \in {"smoke_copies", "smoke_images", "smoke_done"} =>
          smoke_analysis_keys \subseteq DOMAIN analysis
    /\ pc \in {"smoke_images", "smoke_done"} =>
          /\ Len(copies) = req.num_copies
          /\ \A i \in 1..Len(copies) : {"estrategia", "texto"} \subseteq DOMAIN copies[i]
    /\ pc = "smoke_done" =>
          \A i \in 1..Len(images) : "style" \in DOMAIN images[i]

\* the image providers the loaded system has a key for
pipeline_chain ==
    (IF main_system = "real" /\ creds.stability THEN {"stability"} ELSE {})
    \cup (IF creds.hf THEN {"huggingface"} ELSE {})

\* the providers of the stage lg is in that have a key
legacy_chain ==
    IF lg.op \in RouterOps
    THEN (IF lg.keys.claude THEN {"claude"} ELSE {}) \cup (IF lg.keys.openai THEN {"openai"} ELSE {})
    ELSE (IF lg.keys.stability THEN {"stability"} ELSE {})
         \cup (IF lg.keys.hf THEN {"huggingface"} ELSE {})
         \cup (IF lg.op = "free_images" /\ lg.keys.replicate THEN {"replicate"} ELSE {})

\* the local tiers: the mocks, the per-item fallbacks, the basic extraction
local_tier(tier) == tier \in {"mock", "basic"}

\* in this history a local tier is invoked only after every configured
\* provider was invoked and failed
exhausted_before_local(history, configured) ==
    \A j \in 1..Len(history) :
        local_tier(history[j].tier) =>
            \A p \in configured :
                \E m \in 1..(j - 1) : history[m].tier = p /\ ~history[m].ok

\* C15: for every item, the local mock/fallback is used only after every
\* configured provider of the stage was attempted for it and failed.
C15_ChainExhausted ==
    /\ \A i \in 1..Len(trace.attempts) :
          exhausted_before_local(trace.attempts[i], pipeline_chain)
    /\ lg.pc # "unused" =>
          /\ exhausted_before_local(lg.analysis_attempts, legacy_chain)
          /\ \A i \in 1..Len(lg.attempts) :
                exhausted_before_local(lg.attempts[i], legacy_chain)

\* priority of a provider within its stage; a stage calls one of Claude and
\* OpenAI only
provider_rank ==
    [stability |-> 1, huggingface |-> 2, replicate |-> 3, claude |-> 1, openai |-> 1]

\* in this history every provider is invoked at most once, the providers are
\* invoked in priority order and before the local tiers, and nothing is
\* invoked after a provider that made the item
once_in_order(history) ==
    /\ \A a, b \in 1..Len(history) :
          (a < b /\ ~local_tier(history[b].tier)) =>
              /\ ~local_tier(history[a].tier)
              /\ provider_rank[history[a].tier] < provider_rank[history[b].tier]
    /\ \A a \in 1..(Len(history) - 1) :
          ~local_tier(history[a].tier) => ~history[a].ok

\* C16: for every item every provider is called at most once, the providers
\* are called in priority order, and after a provider made the item no other
\* provider and no mock is invoked for it.
C16_OnceInOrder ==
    /\ \A i \in 1..Len(trace.attempts) : once_in_order(trace.attempts[i])
    /\ lg.pc # "unused" =>
          /\ once_in_order(lg.analysis_attempts)
          /\ \A i \in 1..Len(lg.attempts) : once_in_order(lg.attempts[i])

\* position of a control state and of a recorded stage in the order Analyze,
\* Copy, ImagePrompt (reference search and prompt creation), Image, Compose
stage_of ==
    [idle |-> 0, analyze |-> 1, copy |-> 2, search |-> 3, prompts |-> 3,
     image |-> 4, image_hf |-> 4, compose |-> 5, done |-> 6]

\* the stages started so far begin with Analyze and each one is the successor
\* of the one before it; the image loop alone may be empty, when the prompt
\* list is empty
stages_in_order(stages, prompt_list) ==
    /\ stages # <<>> => stages[1] = "analyze"
    /\ \A k \in 1..(Len(stages) - 1) :
          \/ stage_of[stages[k + 1]] = stage_of[stages[k]] + 1
          \/ stages[k] = "search" /\ stages[k + 1] = "prompts"
          \/ stages[k] = "prompts" /\ stages[k + 1] = "compose" /\ prompt_list = <<>>

\* C17: within one request the stages run strictly in the order Analyze, Copy,
\* ImagePrompt, Image, Compose, no stage starting before the previous one has
\* finished; the analysis Analyze returned is the one Copy and the image stages
\* work on, the copies Copy returned are the ones the image stages work on, and
\* the response holds exactly the analysis, copies and images Compose received.
C17_StagesInOrder ==
    [][ /\ pc \notin {"idle", "done"} => stage_of[pc'] >= stage_of[pc]
        /\ stages_in_order(trace'.stages, prompts')
        /\ stage_of[pc] \in 2..5 => analysis' = analysis
        /\ stage_of[pc] \in 3..5 => copies' = copies
        /\ pc = "compose" =>
              /\ images' = images
              /\ resp'.status = 200 =>
                    /\ resp'.analise_produto = analysis
                    /\ resp'.copies_geradas = copies
                    /\ resp'.imagens_geradas = images ]_vars

\* a request of the free pipeline went through the six steps with a provider
\* analysis and three images, and was answered
C17_Witness ==
    /\ pc = "done"
    /\ resp.status = 200
    /\ trace.stages = <<"analyze", "copy", "search", "prompts", "image", "compose">>
    /\ trace.analysis_by = "groq"
    /\ Len(resp.copies_geradas) = 3
    /\ Len(resp.imagens_geradas) = 3
    /\ resp.analise_produto = analysis

\* the storage keywords and the condition keywords of the price rule
storage_keywords == << <<"2","5","6","g","b">>, <<"5","1","2","g","b">>, <<"1","t","b">> >>

condition_multiplier(prompt_lower) ==
    IF Contains(prompt_lower, <<"u","s","a","d","o">>) THEN 60
    ELSE IF Contains(prompt_lower, <<"s","e","m","i","n","o","v","o">>) THEN 75
    ELSE 100

\* the price rule applied to a base price, for a storage increment of zero:
\* round(base x multiplier), the multiplier in hundredths
final_price(base, multiplier) == (base * multiplier + 50) \div 100

\* C18: the keyword analyzers report the price range [final - 500, final + 500],
\* final = round((base price + storage increment) x condition multiplier), the
\* multiplier 1.0 for new, 0.60 for 'usado' and 0.75 for 'seminovo'; a storage
\* keyword adds a positive increment to the base price, so that the range of a
\* prompt with a storage keyword lies above the range of the base price alone.
\* (Prompts naming both conditions are left out: the rule does not rank them.)
C18_PriceRange ==
    LET prompt_lower == lower(hq.prompt)
        base == mock_marca(prompt_lower, mock_tipo_produto(prompt_lower)).preco_base
        final == final_price(base, condition_multiplier(prompt_lower))
        one_condition == ~(/\ Contains(prompt_lower, <<"u","s","a","d","o">>)
                           /\ Contains(prompt_lower, <<"s","e","m","i","n","o","v","o">>))
    IN  /\ (hq.real # NoResult /\ one_condition) =>
              /\ hq.real.preco_estimado[2] - hq.real.preco_estimado[1] = 1000
              /\ IF any_in(storage_keywords, prompt_lower)
                 THEN hq.real.preco_estimado[1] > final - 500
                 ELSE hq.real.preco_estimado[1] = final - 500
        /\ hq.free # NoResult =>
              hq.free.preco_estimado[2] - hq.free.preco_estimado[1] = 1000

\* the context a keyword analysis carries, read from its product type
context_of(a) ==
    IF a.tipo_produto = "pet_animal_estimacao" THEN "pet"
    ELSE IF a.tipo_produto = "planta_decoracao" THEN "plant"
    ELSE IF a.tipo_produto = "tecnologia" THEN "technology"
    ELSE IF a.tipo_produto = "servico" THEN "service"
    ELSE IF a.tipo_produto = "produto" THEN "generic"
    ELSE "unset"

\* the usage categories of each context
usage_of ==
    [pet |-> {"pet"}, plant |-> {"decoracao"}, technology |-> {"profissional", "pessoal"},
     service |-> {"profissional"}, generic |-> {"geral"}]

\* the contexts in their fixed order, each with its keyword list
context_order == <<"pet", "plant", "technology", "service">>
context_keywords == [pet |-> pets, plant |-> plantas, technology |-> tech, service |-> servicos]

\* C19: the keyword analyzer of the free pipeline gives every prompt exactly one
\* context, the first of pet, plant, technology, service whose keyword list has
\* an entry occurring in the lowercased prompt, and generic when none has; the
\* usage category is the one of that context and neither it nor the product
\* type is left unset.
C19_FirstMatchContext ==
    hq.free # NoResult =>
        LET prompt_lower == lower(hq.prompt)
            matching == {k \in 1..Len(context_order) :
                            any_in(context_keywords[context_order[k]], prompt_lower)}
            expected == IF matching = {} THEN "generic"
                        ELSE context_order[CHOOSE k \in matching : \A other \in matching : k <= other]
        IN  /\ context_of(hq.free) = expected
            /\ hq.free.categoria_uso \in usage_of[expected]
            /\ hq.free.tipo_produto # "" /\ hq.free.categoria_uso # ""

\* a prompt with a pet keyword and a technology keyword was analysed as pet
C19_Witness ==
    /\ hq.free # NoResult
    /\ any_in(pets, lower(hq.prompt))
    /\ any_in(tech, lower(hq.prompt))
    /\ context_of(hq.free) = "pet"

\* the strategies the selection rule of the loaded system assigns to an
\* analysis, for three copies
selected_strategies(system, product_data) ==
    IF system = "free"
    THEN _get_copy_strategies(get(product_data, "estrategia_recomendada", "comercial"), 3)
    ELSE LET strategies == strategies_of(product_data, 3)
         IN  [i \in 1..Len(strategies) |-> strategies[i].name]

\* C20: once the copy stage has returned, the strategies of its copies are
\* pairwise distinct and are, in order, the first three entries the selection
\* rule assigns to the analysis, whether the provider or the fallback wrote
\* the copies.
C20_StrategiesSelected ==
    (stage_of[pc] \in 3..5 /\ IsObject(analysis)) =>
        LET expected == selected_strategies(main_system, analysis)
        IN  /\ Len(copies) = Len(expected)
            /\ \A i \in 1..Len(copies) : copies[i].estrategia = expected[i]
            /\ \A i, j \in 1..Len(copies) : i # j => copies[i].estrategia # copies[j].estrategia

\* the strategy a prompt or image at position i is claimed to carry: the one
\* of copy i, or the default of the loaded system beyond the copies
claimed_strategy(system, copies_, i) ==
    IF i <= Len(copies_) THEN copies_[i].estrategia
    ELSE IF system = "free" THEN "COMERCIAL" ELSE "PADRAO"

\* C21: once the prompt list exists, each prompt that is an object carries the
\* strategy of the copy at its position (the default strategy beyond the
\* copies), and so does each image built so far, whether the template
\* generator or the prompt-writing provider wrote the prompts.
C21_StrategyCarried ==
    pc \in {"image", "image_hf", "compose"} =>
        /\ \A i \in 1..Len(prompts) :
              IsObject(prompts[i]) =>
                  get(prompts[i], "strategy", "None") = claimed_strategy(main_system, copies, i)
        /\ \A i \in 1..Len(images) :
              images[i].strategy = claimed_strategy(main_system, copies, i)

\* C22: the campaign of a response is determined by its analysis, copies and
\* images: the daily budget is the table entry of the analysis's product type
\* (150, the default entry, when the type has none), the duration is 7 days,
\* the total is seven times the daily budget, the objective is CONVERSIONS,
\* the targeting fields are the analysis's fields, and the creative counts
\* are the lengths of the two lists.
C22_CampaignComposed ==
    (pc = "done" /\ resp.status = 200) =>
        LET a == resp.analise_produto
            c == resp.campanha_completa
            tipo == get(a, "tipo_produto", "produto")
        IN  /\ c = create_free_campaign(a, resp.copies_geradas, resp.imagens_geradas)
            /\ c.objetivo = "CONVERSIONS"
            /\ c.orcamento.diario = (IF tipo \in DOMAIN budget_map THEN budget_map[tipo]
                                     ELSE budget_map.produto)
            /\ c.orcamento.duracao = 7
            /\ c.orcamento.total = c.orcamento.diario * 7
            /\ \A field \in DOMAIN a :
                  /\ field = "produto_identificado" => c.segmentacao.produto = a[field]
                  /\ field = "tipo_produto" => c.segmentacao.tipo = a[field]
                  /\ field = "publico_alvo_sugerido" => c.segmentacao.publico = a[field]
                  /\ field = "estrategia_recomendada" => c.segmentacao.estrategia = a[field]
            /\ c.criativos.copies_disponiveis = Len(resp.copies_geradas)
            /\ c.criativos.imagens_disponiveis = Len(resp.imagens_geradas)

\* a response for a smartphone, whose daily budget is the table entry 200,
\* with three copies and three images
C22_Witness ==
    /\ pc = "done"
    /\ resp.status = 200
    /\ get(resp.analise_produto, "tipo_produto", "produto") = "smartphone"
    /\ resp.campanha_completa.orcamento.total = 1400
    /\ resp.campanha_completa.criativos.copies_disponiveis = 3
    /\ resp.campanha_completa.criativos.imagens_disponiveis = 3

\* the length policy of a copy text
MaxCopyLen == 120

\* C23: every copy the copy stage of the free pipeline returns has a text of at
\* least one and at most MaxCopyLen characters, whether the provider, the
\* per-copy fallback template or the mock copies wrote it, and whatever the
\* length of the prompt.
C23_CopyTextBounded ==
    \A i \in 1..Len(hq.copies) :
        /\ copy_text_len(hq.copies[i].texto) > 0
        /\ copy_text_len(hq.copies[i].texto) <= MaxCopyLen

\* C24: the confidence of every copy and of every image the stages have
\* returned lies in [0, 1] (0 to 100 hundredths), for every number of
\* reference photos the search found.
C24_ConfidenceInUnitInterval ==
    /\ \A i \in 1..Len(copies) : copies[i].confidence \in 0..100
    /\ \A i \in 1..Len(images) : images[i].confidence \in 0..100

\* C25: no step of a request handler or of a stage changes the credentials
\* and strategies the singletons read at startup or the loaded system, so the
\* status query reports after every request, answered, failed or rejected,
\* what it reported before it.
C25_AvailabilityFixed ==
    [][ /\ creds' = creds
        /\ main_system' = main_system
        /\ status_query(main_system', creds') = status_query(main_system, creds) ]_vars

\* a request of the free pipeline failed with providers configured, and the
\* status query still reports them
C25_Witness ==
    /\ pc = "done"
    /\ resp.status = 500
    /\ main_system = "free"
    /\ creds.groq /\ creds.hf
    /\ status_query(main_system, creds).status.ai_apis.huggingface
    /\ trace.hf_calls > 0

\* C27: the process starts for every set of configured credentials and has
\* selected the free system, the previous generator or none; when no system
\* could be loaded, a generation request with a prompt is answered with 503,
\* not with an internal error.
C27_NoSystemIs503 ==
    /\ main_system \in {"free", "real", "none"}
    /\ creds \in CredConfigs(main_system)
    /\ (pc = "done" /\ main_system = "none" /\ prompt_of(req) # <<>>) => resp.status = 503

\* C28: the provider calls one request makes are bounded by a constant of
\* the requested counts alone: the text provider is called at most once for
\* the analysis, once for the search strategies, once per copy (three
\* copies) and once for the prompts, and each image provider at most once
\* per requested image, whatever the providers answer.
C28_CallsBounded ==
    /\ trace.groq_calls <= 3 + 3
    /\ pc # "idle" =>
          /\ trace.hf_calls <= req.image_count
          /\ trace.stability_calls <= req.image_count

\* C29: the list generate_copies_with_openai returns for num_copies >= 0 has
\* min(num_copies, 3) copies, and it is either the provider list, with at
\* least one copy tagged 'groq_real' and every other copy tagged
\* 'groq_fallback', or the mock list, every copy tagged 'mock_fallback'; it
\* is never a list of per-copy fallbacks alone.
tags_of(copies_) == {copies_[i].generated_by : i \in 1..Len(copies_)}
copy_stage_result(copies_, num_copies) ==
    /\ Len(copies_) = (IF num_copies < 3 THEN num_copies ELSE 3)
    /\ \/ /\ "groq_real" \in tags_of(copies_)
          /\ tags_of(copies_) \subseteq {"groq_real", "groq_fallback"}
       \/ tags_of(copies_) \subseteq {"mock_fallback"}
C29_WitnessMock ==
    /\ hq.copies_by = "groq" /\ hq.num_copies = 2
    /\ tags_of(hq.copies) = {"mock_fallback"}

\* C30: the heuristic analyzer of the previous generator decides the usage
\* category by first match in the order gamer, professional, premium,
\* casual, and a prompt naming an Apple or Samsung product with 'pro' in it
\* (and no gamer word) is classified 'premium' with recommended strategy
\* 'premium'.
usage_order(prompt_lower, marca) ==
    IF any_in(kw_gamer, prompt_lower) THEN "gamer"
    ELSE IF marca \in {"Apple", "Samsung"} /\ Contains(prompt_lower, <<"p","r","o">>) THEN "premium"
    ELSE IF any_in(kw_profissional, prompt_lower) THEN "profissional"
    ELSE "casual"
C30_PremiumReachable ==
    hq.real # NoResult =>
        /\ hq.real.categoria_uso = usage_order(lower(hq.prompt), hq.real.marca)
        /\ hq.real.categoria_uso = "premium" <=> hq.real.estrategia_recomendada = "premium"

\* C26: two requests interleaved at their awaits on the shared singletons
\* each answer what they would have answered alone with the same provider
\* answers: the same status and, for a 200, the same analysis, copies, images
\* and campaign.
C26_RequestsIsolated ==
    cc.running # 0 =>
        /\ pc = "done" =>
              Answered(RunningLocals) = RunAlone(cc.reqs[cc.running], cc.script[cc.running], creds)
        /\ cc.saved.pc = "done" =>
              Answered(cc.saved) = RunAlone(cc.reqs[3 - cc.running], cc.script[3 - cc.running], creds)
C26_Witness ==
    /\ cc.running # 0 /\ cc.overlap
    /\ pc = "done" /\ cc.saved.pc = "done"
    /\ resp.status = 200 /\ cc.saved.resp.status = 200
    /\ resp.analise_produto # cc.saved.resp.analise_produto
    /\ resp.copies_geradas # cc.saved.resp.copies_geradas
    /\ creds.groq

====
